---- MODULE Spec2Model ----
(***************************************************************************)
(* Medusa sound-effects synthesizer firmware (RP2040, two cores).          *)
(*                                                                         *)
(* The model follows src/unnamed/part_000, the eight-function firmware.    *)
(* Time is millis(): a natural number of milliseconds since power-up.      *)
(* The control task (loop: readButtons, readKeyboard) and the audio task   *)
(* (loop1: trigger arbitration, sequencer stepping, generateSample) are    *)
(* actions over the shared globals; every action is one whole call.        *)
(***************************************************************************)
EXTENDS Integers, Sequences, FiniteSets, TLC

VARIABLES
    now,              \* millis()
    sequencer,        \* SequencerState sequencer
    recorder,         \* RecordState recorder
    recordKeySilence, \* bool recordKeySilence
    reverser,         \* ReverseState reverser
    infiniteSustain,  \* bool infiniteSustain
    hold,             \* holdIsOn: the global and the static that shadows it
    lfo2,             \* LFO2State lfo2
    drone,            \* DroneState drone
    sidechain,        \* SidechainState sidechain
    loopState,        \* LoopState loopState
    siren,            \* SirenParams siren (trigger, gate and mutated fields)
    mutate,           \* MutationState mutate and the static of triggerMutation
    funcShiftBtn,     \* Button funcShiftBtn
    rb,               \* function-local statics of readButtons
    rk,               \* function-local statics of readKeyboard, keyboard.numKeysHeld
    l1,               \* function-local statics of loop1 and the trigger debounce globals
    echoBuffer,       \* int16_t echoBuffer[MAX_DELAY_SAMPLES], the cells that are not 0
    echoWritePos,     \* uint16_t echoWritePos
    savedFeedback,    \* float savedFeedback
    obs               \* what the last step did (observation only, never read by the program)

vars == <<now, sequencer, recorder, recordKeySilence, reverser, infiniteSustain,
          hold, lfo2, drone, sidechain, loopState, siren, mutate, funcShiftBtn,
          rb, rk, l1, echoBuffer, echoWritePos, savedFeedback, obs>>

\* Arduino pin levels: the buttons and keys are active low.
HIGH == TRUE
LOW == FALSE

\* ---------------------------------------------------------------------
\* Program constants
\* ---------------------------------------------------------------------
SetupDelay == 1000          \* setup(): delay(1000) before loop() first runs
DoublePressWindow == 500    \* readButtons: now - lastFuncShiftPress < 500
ButtonDebounce == 50        \* readButton: millis() - lastDebounceTime > 50
Key2RepeatTime == 300       \* readKeyboard: now - lastKey2RepeatTime > 300
PitchHoldTime == 200        \* readKeyboard: millis() - keyPressTime[i] > 200
TriggerDebounceUs == 5000   \* loop1: micros() - lastTriggerDebounceTime > 5000
SyncTimeout == 2000         \* loop1: millis() - lastSyncActivityTime > 2000
gateTimesMs == <<50, 200, 500, 1000>>   \* SHORT, MEDIUM, LONG, EXTRA LONG
GATE_MODE_COUNT == 4
INST_COUNT == 4             \* enum InstrumentType
MODE_COUNT == 6             \* enum SynthMode
RAYGUN_MODE_COUNT == 4      \* enum RayGunMode
LEAD_MODE_COUNT == 4        \* enum LeadSynthMode
DISCO_MODE_COUNT == 6       \* enum DiscoMode
SEQ_SOUND_COUNT == 5        \* enum SequencerSoundMode
DRONE_CHORD_COUNT == 5      \* enum DroneChordMode; readButtons: (chordMode + 1) % 5
DronePlayModes == 3         \* loop1: (drone.playMode + 1) % 3
MinStepInterval == 100      \* readPotentiometers: stepInterval = 100 + ... * 900
LOOP_OFF == 0
LOOP_TRIPLET == 1
LOOP_SWING == 2
LOOP_STACCATO == 3
LOOP_GATE == 4
LOOP_RATCHET == 5
LOOP_DOTTED == 6
LOOP_COUNT == 7
MAX_RECORD_SAMPLES == 110250
MUTATE_OFF == 0
MUTATE_AMOUNT == 1
MUTATE_RHYTHM == 2
MUTATE_CUTOFF == 3
MUTATE_MODE_COUNT == 4
MutateMinGap == 100         \* triggerMutation: now - lastMutateTime < 100
MutateDoubleTap == 500      \* loop1: now - lastMutatePress < 500
UNLOCK_THRESHOLD == 150     \* readPotentiometers
SCALE_COUNT == 5
scaleSizes == <<6, 8, 7, 8, 13>>   \* minor pentatonic, major, blues, minor, chromatic
tempoStepCount == 9
AdcMax == 4095              \* the 12-bit pot readings
MAX_DELAY_SAMPLES == 11025
DelayTimeCount == 6         \* readButtons: (delayIndex + 1) % 6
NoiseGateThreshold == 50    \* generateSample: abs(filteredSample) < 50
HoldZone == 3900            \* readPotentiometers: invertedFeedback >= 3900
\* siren.echoFeedback and savedFeedback are kept in units of 1 / FeedbackOne,
\* so that 1.0, the 0.65 of boot and every pot value
\* ((4095 - feedbackRaw) / 4095) * 0.95 are whole numbers
FeedbackOne == AdcMax * 100
DepthOne == 2 * AdcMax      \* sidechain.depth 1.0, in the unit of depth
DroneFadeMs == 500          \* generateDroneSample: fadeTime = 0.5f, in ms

\* ---------------------------------------------------------------------
\* Bounds of the model
\* ---------------------------------------------------------------------
MaxSeqTime == 230     \* horizon of SpecSeq in ms
SeqGrid == 100        \* its inputs change at multiples of it (+1 ms)
MaxRunTime == 2300    \* horizon of SpecRun in ms (sync timeout is 2000 ms)
RunGrid == 1000       \* its inputs change at multiples of it (+1 ms)
MaxRecTicks == 3      \* samples per recording or playback pass in SpecRec
MaxTrigTime == 1060   \* horizon of SpecTrig in ms (longest gate is 1000 ms)
InputGrid == 500      \* the audio inputs change at multiples of it (+0, +1 ms)
MaxPolls == 3               \* clock advances of the control-task scenarios
MaxMutJumps == 3      \* audio iterations of SpecMut
MutGap == 250         \* milliseconds between two of them
MaxPotJumps == 3      \* audio iterations of SpecPot
MaxDelayPresses == 2  \* presses of the DELAY button in SpecEcho
MaxEchoPasses == 2    \* its samples run for this many delay times
MaxSideTime == 1200   \* horizon of SpecSide in ms after the mode was entered
SideGrid == 300       \* its keys and pots change at multiples of it (+0, +1 ms)
MaxRingTicks == 2300  \* samples of SpecRing (two delay times of 1103 samples)
MaxResets == 1        \* resets of the echo line by the control task in SpecRing
ResetGrid == 500
MaxIdxTicks == 22
MaxPanelPresses == 9
TapGap == 200         \* milliseconds between two audio iterations of SpecTap
MaxTapTicks == 13     \* its iterations
MaxScaleStep == 23          \* the pots pass the steps 0 .. 23      \* they happen at ticks that are multiples of it
PollGap == 250              \* milliseconds between two polls of the control task

ModeNames == {"sequencer", "recorder", "reverser", "hold", "lfo2", "drone",
              "sidechain", "loop"}

\* The active flag of each special-function mode.
ActiveFlags ==
    [m \in ModeNames |->
        CASE m = "sequencer" -> sequencer.active
          [] m = "recorder"  -> recorder.active
          [] m = "reverser"  -> reverser.active
          [] m = "hold"      -> infiniteSustain
          [] m = "lfo2"      -> lfo2.active
          [] m = "drone"     -> drone.active
          [] m = "sidechain" -> sidechain.active
          [] m = "loop"      -> loopState.active]

\* ---------------------------------------------------------------------
\* Boot state: the global and static initialisers
\* ---------------------------------------------------------------------
SequencerInit ==
    [active |-> FALSE, running |-> FALSE,
     stepEnabled |-> [i \in 0..7 |-> TRUE],
     currentStep |-> 0, lastStepTime |-> 0, stepInterval |-> 250,
     noteActive |-> FALSE, gateLength |-> 80, noteStartTime |-> 0,
     soundMode |-> 0]

\* buffer: what setup's malloc returned ("nullptr" if it failed)
RecorderInit ==
    [active |-> FALSE, recording |-> FALSE, hasRecording |-> FALSE,
     recordPosition |-> 0, recordLength |-> 0, playing |-> FALSE,
     loopEnabled |-> FALSE, buffer |-> "allocated"]

\* mutationProbability in units of 1 / (2 * 4095), so that the initial 0.5
\* and every pot value (4095 - pitchRaw) / 4095 are whole numbers;
\* lastActiveMutateMode is the static of triggerMutation.
MutateInit ==
    [mode |-> MUTATE_OFF, pitchStep |-> 0, speedStep |-> 2,
     mutationProbability |-> AdcMax, lastMutateTime |-> 0,
     currentScale |-> 0,
     lockedProbabilityRaw |-> 2048, lockedScaleRaw |-> 2048,
     lockedCutoffRaw |-> 2048,
     probabilityLocked |-> FALSE, scaleLocked |-> FALSE, cutoffLocked |-> FALSE,
     fullyDisabled |-> FALSE,
     lastActiveMutateMode |-> MUTATE_AMOUNT]

\* The values the next calls of random() return: random(100) and random(2)
\* in mutatePitch, random(3) in mutateSpeed, random(41) in mutateModulation.
RandomInit == [pitch |-> 99, sign |-> 0, speed |-> 1, modulation |-> 20]

\* The echo line after setup(): every cell 0.  The buffer is kept as the
\* function from the indices of its non-zero cells to their samples.
EchoBufferInit == [i \in {} |-> 0]

\* The reading of pot 4 (feedback) that readPotentiometers works with:
\* fully counter-clockwise unless an action says otherwise.
FeedbackRawInit == AdcMax

\* The program state as one record, so that a function body is the
\* composition of its blocks in source order.  The fields random (the
\* draws of random() that an iteration consumes) and mutateReading (the
\* level of BTN_MUTATE it samples) are inputs of an iteration and no part
\* of the state; the button is up unless an action says otherwise.
Globals ==
    [sequencer |-> sequencer, recorder |-> recorder,
     recordKeySilence |-> recordKeySilence, reverser |-> reverser,
     infiniteSustain |-> infiniteSustain, hold |-> hold, lfo2 |-> lfo2,
     drone |-> drone, sidechain |-> sidechain, loopState |-> loopState,
     siren |-> siren, mutate |-> mutate, funcShiftBtn |-> funcShiftBtn,
     rb |-> rb, rk |-> rk, l1 |-> l1, echoBuffer |-> echoBuffer,
     echoWritePos |-> echoWritePos, savedFeedback |-> savedFeedback,
     random |-> RandomInit, mutateReading |-> HIGH,
     feedbackRaw |-> FeedbackRawInit]

BootGlobals ==
    [sequencer |-> SequencerInit, recorder |-> RecorderInit,
     recordKeySilence |-> FALSE,
     reverser |-> [active |-> FALSE, reversing |-> FALSE],
     infiniteSustain |-> FALSE,
     hold |-> [isOn |-> FALSE, isOnStatic |-> FALSE],
     lfo2 |-> [active |-> FALSE, enabled |-> FALSE, phase |-> [hi |-> 0, lo |-> 0]],
     drone |-> [active |-> FALSE, playMode |-> 0, chordMode |-> 0,
                envelope |-> 0, fadeStartTime |-> 0],
     sidechain |-> [active |-> FALSE, enabled |-> FALSE, triggered |-> FALSE,
                    depth |-> 9 * (DepthOne \div 10), attackTime |-> 3 * AdcMax,
                    releaseTime |-> 300 * AdcMax, envelope |-> [num |-> 1, den |-> 1],
                    lastTriggerTime |-> 0,
                    lastSidechainDepth |-> 0, lastSidechainAttack |-> 0,
                    lastSidechainRelease |-> 0],
     loopState |-> [active |-> FALSE, pattern |-> LOOP_OFF, patternStartTime |-> 0,
                    patternTempo |-> 480], siren |-> [instrumentType |-> 0, mode |-> 0, rayGunMode |-> 0, leadSynthMode |-> 0,
                                                      discoMode |-> 0,
                                                      triggered |-> FALSE, gateActive |-> FALSE, gateStartTime |-> 0, gateMode |-> 0,
                                                      lfoDepth |-> 80, filterCutoff |-> 1200,
                                                      delayIndex |-> 0, echoTime |-> 5512, echoFeedback |-> 65 * AdcMax], mutate |-> MutateInit,
     funcShiftBtn |->
         [lastState |-> HIGH, currentState |-> HIGH, lastDebounceTime |-> 0],
     rb |-> [lastFuncShiftPress |-> 0, lastFuncShiftReading |-> HIGH],
     rk |-> [lastKey5StateA |-> TRUE, lastKey6State |-> TRUE, lastKey4State |-> TRUE,
             lastKey5StateB |-> TRUE, lastKey3State |-> TRUE, lastKey4StateRec |-> TRUE,
             lastFuncKey |-> [n \in 1..8 |-> HIGH], lastKey2RepeatTime |-> 0,
             lastSeqKeyStates |-> [i \in 0..7 |-> FALSE],
             keyPressTime |-> [i \in 0..7 |-> 0],
             keyHeldForAdjustment |-> [i \in 0..7 |-> FALSE],
             numKeysHeld |-> 0], l1 |-> [lastTriggerReading |-> HIGH, lastTriggerDebounceTime |-> 0,
                                                                       debouncedTriggerState |-> HIGH,
                                                                       lastSyncState |-> FALSE, syncConnected |-> FALSE, lastSyncActivityTime |-> 0,
                                                                       lastDroneTriggerState |-> FALSE, lastSeqTriggerState |-> FALSE,
                                                                       lastKeyPressed |-> FALSE, lastButtonTriggered |-> FALSE,
                                                                       lastKey8Reading |-> HIGH, firstKey8Read |-> TRUE,
                                                                       lastBtnOrKeyState |-> FALSE, lastLoopGateForSidechain |-> FALSE,
                                                                       lastKey2State |-> HIGH,
                                                                       lastActiveMutateMode1 |-> MUTATE_OFF, lastActiveMutateMode2 |-> MUTATE_OFF,
                                                                       lastActiveMutateMode3 |-> MUTATE_OFF,
                                                                       lastMutateModeSeen |-> MUTATE_OFF, lastMutateModeSeen2 |-> MUTATE_OFF,
                                                                       lastLoopGateState |-> FALSE, lastLoopGateStateBtn |-> FALSE,
                                                                       lastMutateReadingInLoop1 |-> HIGH, firstMutateRead |-> TRUE,
                                                                       lastMutatePress |-> 0],
     echoBuffer |-> EchoBufferInit, echoWritePos |-> 0, savedFeedback |-> 0,
     random |-> RandomInit, mutateReading |-> HIGH,
     feedbackRaw |-> FeedbackRawInit]

\* The program state is s (initially) / becomes s (in a step).
StartIn(s) ==
    /\ sequencer = s.sequencer
    /\ recorder = s.recorder
    /\ recordKeySilence = s.recordKeySilence
    /\ reverser = s.reverser
    /\ infiniteSustain = s.infiniteSustain
    /\ hold = s.hold
    /\ lfo2 = s.lfo2
    /\ drone = s.drone
    /\ sidechain = s.sidechain
    /\ loopState = s.loopState
    /\ siren = s.siren
    /\ mutate = s.mutate
    /\ funcShiftBtn = s.funcShiftBtn
    /\ rb = s.rb
    /\ rk = s.rk
    /\ l1 = s.l1
    /\ echoBuffer = s.echoBuffer
    /\ echoWritePos = s.echoWritePos
    /\ savedFeedback = s.savedFeedback

Commit(s) ==
    /\ sequencer' = s.sequencer
    /\ recorder' = s.recorder
    /\ recordKeySilence' = s.recordKeySilence
    /\ reverser' = s.reverser
    /\ infiniteSustain' = s.infiniteSustain
    /\ hold' = s.hold
    /\ lfo2' = s.lfo2
    /\ drone' = s.drone
    /\ sidechain' = s.sidechain
    /\ loopState' = s.loopState
    /\ siren' = s.siren
    /\ mutate' = s.mutate
    /\ funcShiftBtn' = s.funcShiftBtn
    /\ rb' = s.rb
    /\ rk' = s.rk
    /\ l1' = s.l1
    /\ echoBuffer' = s.echoBuffer
    /\ echoWritePos' = s.echoWritePos
    /\ savedFeedback' = s.savedFeedback

\* readPos, cursor: the read index the last pass through the echo line
\* computed and the echoWritePos it computed it from; resetAt: where a reset
\* by the control task landed in that pass; resets: the resets so far.
\* echoTick: the number of the last sample that went through the echo line
\* with the delay on (-1 before the first); sent: the dry samples of the
\* ticks 0, echoTime, 2 * echoTime, ...; delayed: the delayedSample that
\* the last tick read.
\* pitchRaw: the pot 1 reading that readPotentiometers worked with last;
\* horizon: the time at which the scenario ends; entered: "yes" when the
\* last iteration entered a mutation tier >= 1, "read" when the pots were
\* read since and the audio task has not run again.
\* playEnd: what the last loop1 iteration did at the end of the recording
\* ("wrap", "stop", or "none" when the cursor was not at the end).
\* keys: the keys the audio task sampled last; anyEdgeAt: the time of the
\* latest sync rising edge; edgeAt: the same, forgotten while a key or the
\* trigger button is held.
\* readAt: the record-buffer index that the last loop1 iteration read for
\* playback, -1 for none.
\* scanned: the keys that were down at the last call of readKeyboard.
\* op: the last step; pressed / prevPress: function-shift presses seen by
\* readButtons; branch .. wrote: what the last loop1 iteration saw and did
\* (advance: "none", "sync" or "timer"; seqOut: the sample of the sequencer
\* voice, "off" when that voice did not run; wrote: the record-buffer index
\* written, -1 for none); startAt: when the sequencer was started, -1 while
\* it is stopped; steps: the step transitions since then; inOrder: each of
\* them went from step s to step (s + 1) % 8).
ObsInit ==
    [op |-> "boot", pressed |-> FALSE, prevPress |-> -1,
     branch |-> "none", keyPressed |-> FALSE, buttonTriggered |-> FALSE,
     patternGate |-> TRUE, syncEdge |-> FALSE, syncSeen |-> FALSE,
     edgeAt |-> -1, advance |-> "none", fromStep |-> 0, seqOut |-> "off",
     wrote |-> -1, key3Edge |-> FALSE,
     startAt |-> -1, steps |-> 0, inOrder |-> TRUE,
     keys |-> {}, anyEdgeAt |-> -1, playEnd |-> "none", pitchRaw |-> 2048,
     horizon |-> 0, entered |-> "no",
     echoTick |-> -1, sent |-> <<>>, delayed |-> 0,
     readPos |-> 0, cursor |-> 0, resetAt |-> 0, resets |-> 0, presses |-> 0,
     scanned |-> {}, readAt |-> -1,
     fn |-> [kind |-> "none", ph |-> [hi |-> 0, lo |-> 0], out |-> 0,
             filterAmount |-> 0, sample |-> 0, filterState |-> 0,
             currentScale |-> 0, baseFreq |-> 0, scaleStep |-> 0,
             patternTempo |-> 0, elapsed |-> 0, gate |-> FALSE, hits |-> 0,
             onMs |-> 0]]

\* ---------------------------------------------------------------------
\* readButton(btn): 50 ms debounce; the new Button value at time t
\* ---------------------------------------------------------------------
ReadButton(btn, reading, t) ==
    LET d == IF reading # btn.lastState THEN t ELSE btn.lastDebounceTime
    IN  IF (t - d) > ButtonDebounce /\ reading # btn.currentState
        THEN [lastState |-> reading, currentState |-> reading, lastDebounceTime |-> d]
        ELSE [lastState |-> reading, currentState |-> btn.currentState,
              lastDebounceTime |-> d]

isFunctionShiftHeld(s) == s.funcShiftBtn.currentState = LOW

\* ---------------------------------------------------------------------
\* readButtons(): the function-shift block, at time t.
\* The reverser test is an if/else of its own; its else branch stores
\* lastFuncShiftPress = now BEFORE the chain hold / lfo2 / drone / sidechain
\* / loop / recorder / sequencer is tested.
\* ---------------------------------------------------------------------
\* first if/else: exit the reverser on a double press, else record the time
ShiftReverser(s, t) ==
    IF s.reverser.active /\ (t - s.rb.lastFuncShiftPress) < DoublePressWindow
    THEN [s EXCEPT !.reverser.active = FALSE, !.reverser.reversing = FALSE,
                   !.rb.lastFuncShiftPress = 0, !.rk.numKeysHeld = 0]
    ELSE [s EXCEPT !.rb.lastFuncShiftPress = t]

\* second if / else-if chain, reading the lastFuncShiftPress left by the first
ShiftChain(s, t) ==
    LET dbl == (t - s.rb.lastFuncShiftPress) < DoublePressWindow
    IN  IF s.infiniteSustain /\ dbl
        THEN [s EXCEPT !.infiniteSustain = FALSE, !.hold.isOn = FALSE,
                       !.siren.echoFeedback = s.savedFeedback,
                       !.echoBuffer = EchoBufferInit, !.echoWritePos = 0,
                       !.rb.lastFuncShiftPress = 0, !.rk.numKeysHeld = 0]
        ELSE IF s.lfo2.active /\ dbl
        THEN [s EXCEPT !.lfo2.active = FALSE, !.lfo2.enabled = FALSE,
                       !.lfo2.phase = [hi |-> 0, lo |-> 0],
                       !.rb.lastFuncShiftPress = 0, !.rk.numKeysHeld = 0]
        ELSE IF s.drone.active /\ dbl
        THEN [s EXCEPT !.drone.active = FALSE, !.drone.playMode = 0,
                       !.drone.envelope = 0,
                       !.rb.lastFuncShiftPress = 0, !.rk.numKeysHeld = 0]
        ELSE IF s.sidechain.active /\ dbl
        THEN [s EXCEPT !.sidechain.active = FALSE, !.sidechain.enabled = FALSE,
                       !.sidechain.envelope = [num |-> 1, den |-> 1],
                       !.sidechain.triggered = FALSE,
                       !.rb.lastFuncShiftPress = 0, !.rk.numKeysHeld = 0]
        ELSE IF s.loopState.active /\ dbl
        THEN [s EXCEPT !.loopState.active = FALSE, !.loopState.pattern = LOOP_OFF,
                       !.rb.lastFuncShiftPress = 0, !.rk.numKeysHeld = 0]
        ELSE IF s.recorder.active /\ dbl
        THEN [s EXCEPT !.recorder.active = FALSE, !.recorder.recording = FALSE,
                       !.recorder.playing = FALSE,
                       !.recorder.hasRecording = FALSE,
                       !.recorder.recordPosition = 0,
                       !.recorder.recordLength = 0,
                       !.recordKeySilence = FALSE,
                       !.rb.lastFuncShiftPress = 0, !.rk.numKeysHeld = 0]
        ELSE IF s.sequencer.active /\ dbl
        THEN [s EXCEPT !.sequencer.active = FALSE, !.sequencer.running = FALSE,
                       !.rb.lastFuncShiftPress = 0, !.rk.numKeysHeld = 0]
        ELSE [s EXCEPT !.rb.lastFuncShiftPress = t]

ShiftPressed(s, funcShiftReading) ==
    funcShiftReading = LOW /\ s.rb.lastFuncShiftReading = HIGH

ReadButtonsFn(s, funcShiftReading, t) ==
    LET s1 == IF ShiftPressed(s, funcShiftReading)
              THEN ShiftChain(ShiftReverser(s, t), t)
              ELSE s
    IN  [s1 EXCEPT !.rb.lastFuncShiftReading = funcShiftReading,
                   !.funcShiftBtn = ReadButton(s.funcShiftBtn, funcShiftReading, t)]

ReadButtons(funcShiftReading) ==
    /\ Commit(ReadButtonsFn(Globals, funcShiftReading, now))
    /\ obs' = [obs EXCEPT !.op = "readButtons",
                          !.pressed = ShiftPressed(Globals, funcShiftReading),
                          !.prevPress = IF ShiftPressed(Globals, funcShiftReading)
                                        THEN now ELSE obs.prevPress]
    /\ UNCHANGED now

\* ---------------------------------------------------------------------
\* handleFunctionKey(keyNum): entering a special-function mode
\* ---------------------------------------------------------------------
HandleFunctionKey(s, keyNum, t) ==
    CASE keyNum = 1 /\ ~s.sequencer.active ->
            [s EXCEPT !.sequencer.active = TRUE, !.sequencer.running = FALSE,
                      !.sequencer.currentStep = 0]
      [] keyNum = 2 /\ ~s.loopState.active ->
            [s EXCEPT !.loopState.active = TRUE,
                      !.loopState.pattern = LOOP_TRIPLET,
                      !.loopState.patternStartTime = t]
      [] keyNum = 3 /\ ~s.recorder.active ->
            [s EXCEPT !.recordKeySilence = TRUE, !.recorder.active = TRUE]
      [] keyNum = 4 /\ ~s.reverser.active ->
            [s EXCEPT !.reverser.active = TRUE, !.reverser.reversing = FALSE]
      [] keyNum = 5 /\ ~s.infiniteSustain ->
            [s EXCEPT !.infiniteSustain = TRUE,
                      !.savedFeedback = s.siren.echoFeedback]
      [] keyNum = 6 /\ ~s.lfo2.active ->
            [s EXCEPT !.lfo2.active = TRUE, !.lfo2.enabled = FALSE]
      [] keyNum = 7 /\ ~s.drone.active ->
            [s EXCEPT !.drone.active = TRUE, !.drone.playMode = 0,
                      !.drone.envelope = 0, !.drone.fadeStartTime = t]
      [] keyNum = 8 /\ ~s.sidechain.active ->
            [s EXCEPT !.sidechain.active = TRUE, !.sidechain.enabled = FALSE,
                      !.sidechain.envelope = [num |-> 1, den |-> 1]]
      [] OTHER -> s

\* ---------------------------------------------------------------------
\* readKeyboard(): keys is the set of keys (1..8) that read LOW (pressed)
\* ---------------------------------------------------------------------
\* hold mode, first block: Key 5 toggles the global holdIsOn
HoldKeyA(s, keys) ==
    IF s.infiniteSustain
    THEN [s EXCEPT !.hold.isOn = IF (5 \in keys) /\ s.rk.lastKey5StateA
                                 THEN ~@ ELSE @,
                   !.siren.echoFeedback =
                       IF (5 \in keys) /\ s.rk.lastKey5StateA
                       THEN IF ~s.hold.isOn THEN FeedbackOne ELSE s.savedFeedback
                       ELSE @,
                   !.rk.lastKey5StateA = (5 \in keys)]
    ELSE s

\* hold mode, second block: Key 5 toggles a static holdIsOn of its own
HoldKeyB(s, keys) ==
    IF s.infiniteSustain
    THEN [s EXCEPT !.hold.isOnStatic = IF (5 \in keys) /\ s.rk.lastKey5StateB
                                       THEN ~@ ELSE @,
                   !.siren.echoFeedback =
                       IF (5 \in keys) /\ s.rk.lastKey5StateB
                       THEN IF ~s.hold.isOnStatic THEN FeedbackOne
                            ELSE s.savedFeedback
                       ELSE @,
                   !.rk.lastKey5StateB = (5 \in keys)]
    ELSE s

\* record mode, Key 3 just pressed: the record / play cycle
\* variant: stopping a recording does not mark the buffer as holding one
RecordKey3StopForgets(s) ==
    IF ~s.recorder.recording /\ ~s.recorder.playing /\ ~s.recorder.hasRecording
    THEN [s EXCEPT !.recorder.recording = TRUE, !.recorder.recordPosition = 0,
                   !.recorder.recordLength = 0]
    ELSE IF s.recorder.recording
    THEN [s EXCEPT !.recorder.recording = FALSE,
                   !.recorder.recordLength = s.recorder.recordPosition]
    ELSE IF s.recorder.hasRecording /\ ~s.recorder.playing
    THEN [s EXCEPT !.recorder.playing = TRUE, !.recorder.recordPosition = 0]
    ELSE IF s.recorder.playing
    THEN [s EXCEPT !.recorder.playing = FALSE, !.recorder.recordPosition = 0]
    ELSE s

\* Key 3 just pressed: cycle through the record states
RecordKey3(s) ==
    IF ~s.recorder.recording /\ ~s.recorder.playing /\ ~s.recorder.hasRecording
    THEN [s EXCEPT !.recorder.recording = TRUE, !.recorder.recordPosition = 0,
                   !.recorder.recordLength = 0]
    ELSE IF s.recorder.recording
    THEN [s EXCEPT !.recorder.recording = FALSE, !.recorder.hasRecording = TRUE,
                   !.recorder.recordLength = s.recorder.recordPosition]
    ELSE IF s.recorder.hasRecording /\ ~s.recorder.playing
    THEN [s EXCEPT !.recorder.playing = TRUE, !.recorder.recordPosition = 0]
    ELSE IF s.recorder.playing
    THEN [s EXCEPT !.recorder.playing = FALSE, !.recorder.recordPosition = 0]
    ELSE s

Key3Edge(s, keys) == (3 \in keys) /\ ~s.rk.lastKey3State

\* variant: a press during a recording plays what was recorded so far and
\* lets the recording go on
RecordKeysPlayWhileRecording(s, keys) ==
    LET s1 == [s EXCEPT !.recordKeySilence = (3 \in keys) \/ (4 \in keys)]
        s2 == IF Key3Edge(s, keys)
              THEN IF s1.recorder.recording
                   THEN [s1 EXCEPT !.recorder.playing = TRUE,
                                   !.recorder.recordLength = s1.recorder.recordPosition]
                   ELSE RecordKey3(s1)
              ELSE s1
        s3 == IF (4 \in keys) /\ ~s.rk.lastKey4StateRec
              THEN [s2 EXCEPT !.recorder.loopEnabled = ~@]
              ELSE s2
    IN  [s3 EXCEPT !.rk.lastKey3State = (3 \in keys),
                   !.rk.lastKey4StateRec = (4 \in keys)]

\* record mode block (readKeyboard returns after it)
RecordKeys(s, keys) ==
    LET s1 == [s EXCEPT !.recordKeySilence = (3 \in keys) \/ (4 \in keys)]
        s2 == IF Key3Edge(s, keys) THEN RecordKey3(s1) ELSE s1
        s3 == IF (4 \in keys) /\ ~s.rk.lastKey4StateRec
              THEN [s2 EXCEPT !.recorder.loopEnabled = ~@]
              ELSE s2
    IN  [s3 EXCEPT !.rk.lastKey3State = (3 \in keys),
                   !.rk.lastKey4StateRec = (4 \in keys)]

\* function-shift block: keys n..8 in source order; Key 2 repeats every 300 ms
RECURSIVE FunctionKeys(_, _, _, _)
FunctionKeys(s, keys, t, n) ==
    IF n > 8 THEN s
    ELSE LET level == IF n \in keys THEN LOW ELSE HIGH
             edge  == level = LOW /\ s.rk.lastFuncKey[n] = HIGH
             rept  == n = 2 /\ ~edge /\ level = LOW
                      /\ (t - s.rk.lastKey2RepeatTime) > Key2RepeatTime
             s1    == IF edge \/ rept THEN HandleFunctionKey(s, n, t) ELSE s
             s2    == IF n = 2 /\ (edge \/ rept)
                      THEN [s1 EXCEPT !.rk.lastKey2RepeatTime = t] ELSE s1
         IN  FunctionKeys([s2 EXCEPT !.rk.lastFuncKey[n] = level], keys, t, n + 1)

\* sequencer mode block: a short press toggles the step on release, a hold
\* of more than 200 ms adjusts the pitch and does not toggle
SequencerKeys(s, keys, t) ==
    LET held(i)  == (i + 1) \in keys
        start(i) == held(i) /\ ~s.rk.lastSeqKeyStates[i]
        rel(i)   == ~held(i) /\ s.rk.lastSeqKeyStates[i]
        kpt      == [i \in 0..7 |-> IF start(i) THEN t ELSE s.rk.keyPressTime[i]]
        adj      == [i \in 0..7 |->
                        IF held(i) /\ (t - kpt[i]) > PitchHoldTime THEN TRUE
                        ELSE IF start(i) THEN FALSE
                        ELSE s.rk.keyHeldForAdjustment[i]]
    IN  [s EXCEPT !.sequencer.stepEnabled =
                      [i \in 0..7 |-> IF rel(i) /\ ~adj[i] THEN ~@[i] ELSE @[i]],
                  !.rk.keyPressTime = kpt,
                  !.rk.keyHeldForAdjustment =
                      [i \in 0..7 |-> IF rel(i) THEN FALSE ELSE adj[i]],
                  !.rk.lastSeqKeyStates = [i \in 0..7 |-> held(i)]]

ReadKeyboardFn(s, keys, t) ==
    LET funcShift == isFunctionShiftHeld(s)
        s1 == HoldKeyA(s, keys)
        \* LFO 2 mode: Key 6 toggles lfo2.enabled
        s2 == IF s1.lfo2.active
              THEN [s1 EXCEPT !.lfo2.enabled =
                                  IF (6 \in keys) /\ s1.rk.lastKey6State
                                  THEN ~@ ELSE @,
                              !.rk.lastKey6State = (6 \in keys)]
              ELSE s1
        \* reverse mode: Key 4 toggles reverser.reversing
        s3 == IF s2.reverser.active
              THEN [s2 EXCEPT !.reverser.reversing =
                                  IF (4 \in keys) /\ s2.rk.lastKey4State
                                  THEN ~@ ELSE @,
                              !.rk.lastKey4State = (4 \in keys)]
              ELSE s2
        s4 == HoldKeyB(s3, keys)
        \* the keys are read and counted; Key 6 does not count in LFO 2 mode
        s5 == [s4 EXCEPT !.rk.numKeysHeld =
                             Cardinality(IF s4.lfo2.active THEN keys \ {6} ELSE keys)]
    IN  IF s4.recorder.active THEN RecordKeys(s4, keys)
        ELSE IF funcShift THEN FunctionKeys(s5, keys, t, 1)
        ELSE IF s5.sequencer.active THEN SequencerKeys(s5, keys, t)
        ELSE s5

ReadKeyboard(keys) ==
    /\ Commit(ReadKeyboardFn(Globals, keys, now))
    /\ obs' = [obs EXCEPT !.op = "readKeyboard", !.pressed = FALSE,
                          !.scanned = keys,
                          !.key3Edge = Globals.recorder.active
                                       /\ Key3Edge(Globals, keys)]
    /\ UNCHANGED now

\* ---------------------------------------------------------------------
\* readPotentiometers(): pitchRaw, speedRaw and modRaw are the smoothed
\* readings of pots 1 to 3 that the function works with.
\* ---------------------------------------------------------------------
Distance(a, b) == IF a > b THEN a - b ELSE b - a

\* what pot 4 at feedbackRaw stands for: ((4095 - feedbackRaw) / 4095) * 0.95
PotFeedback(feedbackRaw) == (AdcMax - feedbackRaw) * 95

\* what pot 1 at pitchRaw stands for in the three tiers
PotProbability(pitchRaw) == 2 * (AdcMax - pitchRaw)

PotScale(pitchRaw) ==
    LET scaleSelect == ((AdcMax - pitchRaw) * SCALE_COUNT) \div (AdcMax + 1)
    IN  IF scaleSelect >= SCALE_COUNT THEN SCALE_COUNT - 1 ELSE scaleSelect

PotCutoff(pitchRaw) == 200 + ((AdcMax - pitchRaw) * 3800) \div AdcMax

\* variant: the lock already opens at a distance of exactly UNLOCK_THRESHOLD
ProbabilityPotEager(s, pitchRaw) ==
    IF s.mutate.probabilityLocked
       /\ ~(Distance(pitchRaw, s.mutate.lockedProbabilityRaw) >= UNLOCK_THRESHOLD)
    THEN s
    ELSE [s EXCEPT !.mutate.probabilityLocked = FALSE,
                   !.mutate.mutationProbability = PotProbability(pitchRaw),
                   !.mutate.lockedProbabilityRaw = pitchRaw]

\* pot 1 in a mutation tier: a locked parameter stays until the pot has
\* moved more than UNLOCK_THRESHOLD from the stored position
ProbabilityPot(s, pitchRaw) ==
    IF s.mutate.probabilityLocked
       /\ ~(Distance(pitchRaw, s.mutate.lockedProbabilityRaw) > UNLOCK_THRESHOLD)
    THEN s
    ELSE [s EXCEPT !.mutate.probabilityLocked = FALSE,
                   !.mutate.mutationProbability = PotProbability(pitchRaw),
                   !.mutate.lockedProbabilityRaw = pitchRaw]

ScalePot(s, pitchRaw) ==
    IF s.mutate.scaleLocked
       /\ ~(Distance(pitchRaw, s.mutate.lockedScaleRaw) > UNLOCK_THRESHOLD)
    THEN s
    ELSE [s EXCEPT !.mutate.scaleLocked = FALSE,
                   !.mutate.currentScale = PotScale(pitchRaw),
                   !.mutate.lockedScaleRaw = pitchRaw]

CutoffPot(s, pitchRaw) ==
    IF s.mutate.cutoffLocked
       /\ ~(Distance(pitchRaw, s.mutate.lockedCutoffRaw) > UNLOCK_THRESHOLD)
    THEN s
    ELSE [s EXCEPT !.mutate.cutoffLocked = FALSE,
                   !.siren.filterCutoff = PotCutoff(pitchRaw),
                   !.mutate.lockedCutoffRaw = pitchRaw]

\* pot 1 outside the tiers (or in LFO 2 mode): the locks are only released
UnlockPots(s, pitchRaw) ==
    IF s.lfo2.active THEN s
    ELSE [s EXCEPT
            !.mutate.probabilityLocked =
                @ /\ ~(Distance(pitchRaw, s.mutate.lockedProbabilityRaw)
                          > UNLOCK_THRESHOLD),
            !.mutate.scaleLocked =
                @ /\ ~(Distance(pitchRaw, s.mutate.lockedScaleRaw)
                          > UNLOCK_THRESHOLD),
            !.mutate.cutoffLocked =
                @ /\ ~(Distance(pitchRaw, s.mutate.lockedCutoffRaw)
                          > UNLOCK_THRESHOLD)]

MutationPots(s, pitchRaw) ==
    IF s.mutate.mode # MUTATE_OFF /\ ~s.lfo2.active
    THEN IF s.mutate.mode = MUTATE_AMOUNT THEN ProbabilityPot(s, pitchRaw)
         ELSE IF s.mutate.mode = MUTATE_RHYTHM THEN ScalePot(s, pitchRaw)
         ELSE CutoffPot(s, pitchRaw)
    ELSE UnlockPots(s, pitchRaw)

\* sidechain mode: pots 1 to 3 set depth, attack time and release time,
\* each only when it is more than 0.02 / 2 ms / 10 ms away from the value
\* it was set to last
SidechainPots(s, pitchRaw, speedRaw, modRaw) ==
    LET newDepth   == 2 * (AdcMax - pitchRaw)
        newAttack  == 50 * AdcMax - (AdcMax - speedRaw) * 49
        newRelease == 500 * AdcMax - (AdcMax - modRaw) * 450
        depthMoved ==
            50 * Distance(newDepth, s.sidechain.lastSidechainDepth) > DepthOne
        attackMoved ==
            Distance(newAttack, s.sidechain.lastSidechainAttack) > 2 * AdcMax
        releaseMoved ==
            Distance(newRelease, s.sidechain.lastSidechainRelease) > 10 * AdcMax
    IN  IF ~s.sidechain.active THEN s
        ELSE [s EXCEPT
                !.sidechain.depth = IF depthMoved THEN newDepth ELSE @,
                !.sidechain.lastSidechainDepth = IF depthMoved THEN newDepth ELSE @,
                !.sidechain.attackTime = IF attackMoved THEN newAttack ELSE @,
                !.sidechain.lastSidechainAttack =
                    IF attackMoved THEN newAttack ELSE @,
                !.sidechain.releaseTime = IF releaseMoved THEN newRelease ELSE @,
                !.sidechain.lastSidechainRelease =
                    IF releaseMoved THEN newRelease ELSE @]

\* readPotentiometers(): the blocks in source order
ReadPotentiometersFn(s, pitchRaw, speedRaw, modRaw) ==
    LET \* sequencer mode: pot 2 sets the step time, pot 4 the echo feedback;
        \* the function returns
        seq == [s EXCEPT !.sequencer.stepInterval =
                             MinStepInterval + (speedRaw * 900) \div AdcMax,
                         !.siren.echoFeedback = PotFeedback(s.feedbackRaw)]
        s1 == MutationPots(s, pitchRaw)
        \* loop mode: pot 2 sets the pattern tempo
        s2 == IF s1.loopState.active /\ s1.loopState.pattern # LOOP_OFF
                 /\ ~s1.lfo2.active
              THEN [s1 EXCEPT !.loopState.patternTempo =
                                  200 + (speedRaw * 800) \div AdcMax]
              ELSE s1
        \* hold mode with hold on: pot 4 sets the feedback, 100% in its top zone
        s3 == IF s2.infiniteSustain /\ s2.hold.isOn
              THEN [s2 EXCEPT !.siren.echoFeedback =
                                  IF AdcMax - s2.feedbackRaw >= HoldZone
                                  THEN FeedbackOne
                                  ELSE PotFeedback(s2.feedbackRaw)]
              ELSE s2
        s4 == SidechainPots(s3, pitchRaw, speedRaw, modRaw)
        \* dub siren in its classic mode: pot 3 sets the LFO depth (hundredths)
        s5 == [s4 EXCEPT !.siren.lfoDepth = ((AdcMax - modRaw) * 100) \div AdcMax]
    IN  IF s.sequencer.active THEN seq
        \* the last block: pot 4 sets the echo feedback unless hold mode is active
        ELSE IF ~s5.infiniteSustain
        THEN [s5 EXCEPT !.siren.echoFeedback = PotFeedback(s5.feedbackRaw)]
        ELSE s5

ReadPotentiometers(pitchRaw, speedRaw, modRaw) ==
    /\ Commit(ReadPotentiometersFn(Globals, pitchRaw, speedRaw, modRaw))
    /\ obs' = [obs EXCEPT !.op = "readPotentiometers", !.pressed = FALSE,
                          !.pitchRaw = pitchRaw,
                          !.entered = IF @ = "yes" THEN "read" ELSE "no"]
    /\ UNCHANGED now

\* ---------------------------------------------------------------------
\* evaluateLoopPattern(): the pattern gate at time t.  position is
\* (elapsed % cycleTime) / cycleTime; the comparisons of its fractions are
\* written in exact integer arithmetic.
\* ---------------------------------------------------------------------
\* variant: every pattern has the six subdivisions of the triplet
evaluateLoopPatternSixHits(s, t) ==
    LET c == s.loopState.patternTempo
        e == (t - s.loopState.patternStartTime) % c
    IN  ~s.loopState.active \/ s.loopState.pattern = LOOP_OFF \/ ((6 * e) % c) * 2 < c

evaluateLoopPattern(s, t) ==
    LET c == s.loopState.patternTempo
        e == (t - s.loopState.patternStartTime) % c
        p == s.loopState.pattern
    IN  IF ~s.loopState.active \/ p = LOOP_OFF THEN TRUE
        ELSE IF p = LOOP_TRIPLET THEN ((6 * e) % c) * 2 < c
        ELSE IF p = LOOP_SWING THEN ((3 * e) % c) * 10 < 6 * c
        ELSE IF p = LOOP_STACCATO THEN ((4 * e) % c) * 4 < c
        ELSE IF p = LOOP_GATE THEN 2 * e < c
        ELSE IF p = LOOP_RATCHET THEN ((12 * e) % c) * 2 < c
        ELSE IF p = LOOP_DOTTED
        THEN IF ((4 * e) \div c) % 2 = 0
             THEN ((4 * e) % c) * 10 < 6 * c
             ELSE ((4 * e) % c) * 10 < 3 * c
        ELSE TRUE

\* ---------------------------------------------------------------------
\* loop1(): one iteration of the audio task at time t.
\*   triggerReading: level of BTN_TRIGGER; syncInputHigh: SYNC_IN is high;
\*   keys: the keys that read LOW; smp: the value the sequencer voice
\*   synthesises when it sounds.
\* ---------------------------------------------------------------------
\* trigger button debounce; micros() is taken as 1000 * millis()
TriggerDebounce(s, triggerReading, t) ==
    LET d == IF triggerReading # s.l1.lastTriggerReading THEN t
             ELSE s.l1.lastTriggerDebounceTime
    IN  [s EXCEPT !.l1.lastTriggerDebounceTime = d,
                  !.l1.debouncedTriggerState =
                      IF (t - d) * 1000 > TriggerDebounceUs /\ triggerReading # @
                      THEN triggerReading ELSE @,
                  !.l1.lastTriggerReading = triggerReading]

buttonTriggered(s) == s.l1.debouncedTriggerState = LOW

\* variant: the timeout already strikes at exactly 2000 ms
SyncInputEarly(s, syncInputHigh, t) ==
    LET s1 == IF syncInputHigh # s.l1.lastSyncState
              THEN [s EXCEPT !.l1.syncConnected = TRUE,
                             !.l1.lastSyncActivityTime = t]
              ELSE s
    IN  IF (t - s1.l1.lastSyncActivityTime) >= SyncTimeout
        THEN [s1 EXCEPT !.l1.syncConnected = FALSE]
        ELSE s1

\* sync cable activity and the 2 s timeout
SyncInput(s, syncInputHigh, t) ==
    LET s1 == IF syncInputHigh # s.l1.lastSyncState
              THEN [s EXCEPT !.l1.syncConnected = TRUE,
                             !.l1.lastSyncActivityTime = t]
              ELSE s
    IN  IF (t - s1.l1.lastSyncActivityTime) > SyncTimeout
        THEN [s1 EXCEPT !.l1.syncConnected = FALSE]
        ELSE s1

syncRisingEdge(s, syncInputHigh) == syncInputHigh /\ ~s.l1.lastSyncState

\* drone mode: the button cycles OFF -> KEYS -> ON
DroneTrigger(s, t) ==
    LET s1 == IF buttonTriggered(s) /\ ~s.l1.lastDroneTriggerState
              THEN [s EXCEPT !.drone.playMode = (@ + 1) % DronePlayModes,
                             !.drone.fadeStartTime = t]
              ELSE s
    IN  [s1 EXCEPT !.l1.lastDroneTriggerState = buttonTriggered(s),
                   !.siren.triggered = FALSE]

\* sequencer mode: the button toggles running
SeqToggle(s, t) ==
    LET s1 == IF buttonTriggered(s) /\ ~s.l1.lastSeqTriggerState
              THEN IF ~s.sequencer.running
                   THEN [s EXCEPT !.sequencer.running = TRUE,
                                  !.sequencer.lastStepTime = t,
                                  !.sequencer.currentStep = 0]
                   ELSE [s EXCEPT !.sequencer.running = FALSE]
              ELSE s
    IN  [s1 EXCEPT !.l1.lastSeqTriggerState = buttonTriggered(s)]

\* variant: the internal timer also runs while sync is connected
SeqAdvanceKindTimerAlways(s, edge, t) ==
    IF ~s.sequencer.running THEN "none"
    ELSE IF s.l1.syncConnected /\ edge THEN "sync"
    ELSE IF (t - s.sequencer.lastStepTime) >= s.sequencer.stepInterval
    THEN "timer"
    ELSE "none"

\* what advances the running sequencer in this iteration
SeqAdvanceKind(s, edge, t) ==
    IF ~s.sequencer.running THEN "none"
    ELSE IF s.l1.syncConnected /\ edge THEN "sync"
    ELSE IF ~s.l1.syncConnected
            /\ (t - s.sequencer.lastStepTime) >= s.sequencer.stepInterval
    THEN "timer"
    ELSE "none"

RECURSIVE SkipDisabled(_, _, _)
\* variant: no probing, the next step is taken as it is
SkipDisabledNot(stepEnabled, nextStep, stepsChecked) == nextStep

\* while (!stepEnabled[nextStep] && stepsChecked < 8) { next; stepsChecked++ }
SkipDisabled(stepEnabled, nextStep, stepsChecked) ==
    IF ~stepEnabled[nextStep] /\ stepsChecked < 8
    THEN SkipDisabled(stepEnabled, (nextStep + 1) % 8, stepsChecked + 1)
    ELSE nextStep

\* variant: a timer advance forgets to restart the timer
SeqAdvanceKeepsTimer(s, t) ==
    LET nextStep == SkipDisabled(s.sequencer.stepEnabled,
                                 (s.sequencer.currentStep + 1) % 8, 0)
    IN  IF s.sequencer.stepEnabled[nextStep]
        THEN [s EXCEPT !.sequencer.currentStep = nextStep,
                       !.sequencer.noteActive = TRUE,
                       !.sequencer.noteStartTime = t]
        ELSE [s EXCEPT !.sequencer.noteActive = FALSE]

\* the step advance; lastStepTime = currentTime in both timing branches
SeqAdvance(s, t) ==
    LET nextStep == SkipDisabled(s.sequencer.stepEnabled,
                                 (s.sequencer.currentStep + 1) % 8, 0)
    IN  IF s.sequencer.stepEnabled[nextStep]
        THEN [s EXCEPT !.sequencer.lastStepTime = t,
                       !.sequencer.currentStep = nextStep,
                       !.sequencer.noteActive = TRUE,
                       !.sequencer.noteStartTime = t]
        ELSE [s EXCEPT !.sequencer.lastStepTime = t,
                       !.sequencer.noteActive = FALSE]

SequencerTrigger(s, edge, t) ==
    LET s1 == SeqToggle(s, t)
        s2 == IF SeqAdvanceKind(s1, edge, t) # "none" THEN SeqAdvance(s1, t)
              ELSE s1
    IN  [s2 EXCEPT !.siren.triggered = FALSE]

\* normal mode: a key counts unless its mode has taken it over
keyPressed(s, keys) ==
    \/ keys \cap {1, 2, 7, 8} # {}
    \/ 3 \in keys /\ ~s.recorder.active
    \/ 4 \in keys /\ ~s.reverser.active
    \/ 5 \in keys /\ ~s.infiniteSustain
    \/ 6 \in keys /\ ~s.lfo2.active

\* ---------------------------------------------------------------------
\* The mutation engine.  The instrument is the dub siren (the boot value;
\* the instrument button is not part of the model).
\* ---------------------------------------------------------------------
scaleSize(s) == scaleSizes[s.mutate.currentScale + 1]

\* variant: the walk is not stopped at step 0
mutatePitchNoFloor(s) ==
    LET size      == scaleSize(s)
        magnitude == IF s.random.pitch < 10 THEN size
                     ELSE IF s.random.pitch < 40 THEN 2 ELSE 1
        change    == IF s.random.sign = 0 THEN magnitude ELSE -magnitude
        newStep   == s.mutate.pitchStep + change
    IN  [s EXCEPT !.mutate.pitchStep =
                      IF newStep >= size * 4 THEN size * 4 - 1 ELSE newStep]

\* random walk of the pitch step, clamped to 4 octaves of the scale
mutatePitch(s) ==
    LET size      == scaleSize(s)
        magnitude == IF s.random.pitch < 10 THEN size
                     ELSE IF s.random.pitch < 40 THEN 2 ELSE 1
        change    == IF s.random.sign = 0 THEN magnitude ELSE -magnitude
        newStep   == s.mutate.pitchStep + change
        floored   == IF newStep < 0 THEN 0 ELSE newStep
    IN  [s EXCEPT !.mutate.pitchStep =
                      IF floored >= size * 4 THEN size * 4 - 1 ELSE floored]

\* random walk of the tempo step
mutateSpeed(s) ==
    LET newStep == s.mutate.speedStep + (s.random.speed - 1)
        floored == IF newStep < 0 THEN 0 ELSE newStep
    IN  [s EXCEPT !.mutate.speedStep =
                      IF floored >= tempoStepCount THEN tempoStepCount - 1
                      ELSE floored]

\* random walk of the LFO depth (dub siren), in hundredths
mutateModulation(s) ==
    LET depth == s.siren.lfoDepth + (s.random.modulation - 20)
    IN  [s EXCEPT !.siren.lfoDepth =
                      IF depth < 0 THEN 0 ELSE IF depth > 100 THEN 100 ELSE depth]

\* variant: the engine does not look at fullyDisabled
triggerMutationIgnoresDisabled(s, t) ==
    IF t - s.mutate.lastMutateTime < MutateMinGap THEN s
    ELSE LET tier == IF s.mutate.mode # MUTATE_OFF THEN s.mutate.mode
                     ELSE s.mutate.lastActiveMutateMode
             s1   == [s EXCEPT !.mutate.lastMutateTime = t,
                               !.mutate.lastActiveMutateMode = tier]
         IN  IF tier = MUTATE_AMOUNT THEN mutatePitch(s1)
             ELSE IF tier = MUTATE_RHYTHM THEN mutateSpeed(mutatePitch(s1))
             ELSE IF tier = MUTATE_CUTOFF
             THEN mutateModulation(mutateSpeed(mutatePitch(s1)))
             ELSE s1

\* the engine: disabled and rate-limit exits, then the walk of the last
\* active tier
triggerMutation(s, t) ==
    IF s.mutate.fullyDisabled THEN s
    ELSE IF t - s.mutate.lastMutateTime < MutateMinGap THEN s
    ELSE LET tier == IF s.mutate.mode # MUTATE_OFF THEN s.mutate.mode
                     ELSE s.mutate.lastActiveMutateMode
             s1   == [s EXCEPT !.mutate.lastMutateTime = t,
                               !.mutate.lastActiveMutateMode = tier]
         IN  IF tier = MUTATE_AMOUNT THEN mutatePitch(s1)
             ELSE IF tier = MUTATE_RHYTHM THEN mutateSpeed(mutatePitch(s1))
             ELSE IF tier = MUTATE_CUTOFF
             THEN mutateModulation(mutateSpeed(mutatePitch(s1)))
             ELSE s1

\* variant: the call site calls the engine whether or not a tier was seen
EdgeMutationAlways(s, t, lastActive) ==
    LET tier == IF s.mutate.mode # MUTATE_OFF THEN s.mutate.mode
                ELSE s.l1[lastActive]
    IN  triggerMutation([s EXCEPT !.l1[lastActive] = tier], t)

\* a call site of loop1: remember the tier in the static lastActive and
\* call the engine if a tier was ever seen there
EdgeMutation(s, t, lastActive) ==
    LET tier == IF s.mutate.mode # MUTATE_OFF THEN s.mutate.mode
                ELSE s.l1[lastActive]
        s1   == [s EXCEPT !.l1[lastActive] = tier]
    IN  IF tier # MUTATE_OFF THEN triggerMutation(s1, t) ELSE s1

\* a call site of loop1: the engine on a rising edge of the loop pattern
\* gate, while a key or the button is held in loop mode
LoopGateMutation(s, t, lastSeen, lastGate) ==
    LET tier == IF s.mutate.mode # MUTATE_OFF THEN s.mutate.mode
                ELSE s.l1[lastSeen]
        s1   == [s EXCEPT !.l1[lastSeen] = tier]
        gate == evaluateLoopPattern(s1, t)
    IN  IF s1.loopState.active /\ s1.loopState.pattern # LOOP_OFF
           /\ tier # MUTATE_OFF
        THEN [(IF gate /\ ~s1.l1[lastGate] THEN triggerMutation(s1, t) ELSE s1)
                 EXCEPT !.l1[lastGate] = gate]
        ELSE s1

\* keyboard branch of the trigger priority system
KeyboardTrigger(s, t) ==
    LET s1 == [s EXCEPT !.siren.triggered = evaluateLoopPattern(s, t),
                        !.siren.gateActive = FALSE,
                        !.loopState.patternStartTime =
                            IF ~s.l1.lastKeyPressed THEN t ELSE @]
        s2 == IF ~s.l1.lastKeyPressed
              THEN EdgeMutation(s1, t, "lastActiveMutateMode1") ELSE s1
        s3 == LoopGateMutation(s2, t, "lastMutateModeSeen", "lastLoopGateState")
    IN  [s3 EXCEPT !.l1.lastKeyPressed = TRUE]

\* button branch
ButtonTrigger(s, t) ==
    LET s1 == [s EXCEPT !.siren.triggered = evaluateLoopPattern(s, t),
                        !.siren.gateActive = FALSE,
                        !.loopState.patternStartTime =
                            IF ~s.l1.lastButtonTriggered THEN t ELSE @]
        s2 == IF ~s.l1.lastButtonTriggered
              THEN EdgeMutation(s1, t, "lastActiveMutateMode2") ELSE s1
        s3 == LoopGateMutation(s2, t, "lastMutateModeSeen2",
                               "lastLoopGateStateBtn")
    IN  [s3 EXCEPT !.l1.lastButtonTriggered = TRUE]

\* sync branch: a rising edge opens the gate
SyncGateOpen(s, t) ==
    LET s1 == [s EXCEPT !.siren.gateStartTime = t,
                        !.siren.gateActive = TRUE,
                        !.siren.triggered = TRUE,
                        !.loopState.patternStartTime =
                            IF s.loopState.pattern # LOOP_OFF THEN t ELSE @]
        s2 == EdgeMutation(s1, t, "lastActiveMutateMode3")
    IN  [s2 EXCEPT !.sidechain.triggered =
                       IF s.sidechain.enabled THEN TRUE ELSE @,
                   !.sidechain.lastTriggerTime =
                       IF s.sidechain.enabled THEN t ELSE @]

\* variant: the gate is still open when exactly gateTimesMs[gateMode] elapsed
SyncGateTimingLate(s, t) ==
    IF s.siren.gateActive
    THEN LET open == ~((t - s.siren.gateStartTime) > gateTimesMs[s.siren.gateMode + 1])
         IN  [s EXCEPT !.siren.gateActive = open, !.siren.triggered = open]
    ELSE [s EXCEPT !.siren.triggered = FALSE]

\* sync branch: the gate closes after gateTimesMs[gateMode]
SyncGateTiming(s, t) ==
    IF s.siren.gateActive
    THEN LET open == ~((t - s.siren.gateStartTime) >= gateTimesMs[s.siren.gateMode + 1])
         IN  [s EXCEPT !.siren.gateActive = open, !.siren.triggered = open]
    ELSE [s EXCEPT !.siren.triggered = FALSE]

\* variant: an open or opening sync gate is served before the trigger button
NormalTriggerSyncFirst(s, edge, keys, t) ==
    IF keyPressed(s, keys) THEN KeyboardTrigger(s, t)
    ELSE IF (s.l1.syncConnected /\ edge) \/ s.siren.gateActive
    THEN SyncGateTiming(IF s.l1.syncConnected /\ edge THEN SyncGateOpen(s, t)
                        ELSE s, t)
    ELSE IF buttonTriggered(s) THEN ButtonTrigger(s, t)
    ELSE SyncGateTiming(s, t)

NormalTrigger(s, edge, keys, t) ==
    IF keyPressed(s, keys) THEN KeyboardTrigger(s, t)
    ELSE IF buttonTriggered(s) THEN ButtonTrigger(s, t)
    ELSE SyncGateTiming(IF s.l1.syncConnected /\ edge THEN SyncGateOpen(s, t)
                        ELSE s, t)

Loop1Branch(s) ==
    IF s.drone.active THEN "drone"
    ELSE IF s.sequencer.active THEN "sequencer"
    ELSE "normal"

\* variant: a press locks the parameter of the tier that is entered
MutateButtonLocksEntered(s, t) ==
    LET reading == s.mutateReading
        old     == s.mutate.mode
        next    == (old + 1) % MUTATE_MODE_COUNT
    IN  IF s.l1.firstMutateRead
        THEN [s EXCEPT !.l1.lastMutateReadingInLoop1 = reading,
                       !.l1.firstMutateRead = FALSE]
        ELSE IF reading = LOW /\ s.l1.lastMutateReadingInLoop1 = HIGH
        THEN IF t - s.l1.lastMutatePress < MutateDoubleTap
             THEN [s EXCEPT !.mutate.fullyDisabled = ~@,
                            !.l1.lastMutatePress = 0,
                            !.l1.lastMutateReadingInLoop1 = reading]
             ELSE [s EXCEPT !.mutate.mode = next,
                            !.mutate.fullyDisabled =
                                IF @ /\ next # MUTATE_OFF THEN FALSE ELSE @,
                            !.mutate.probabilityLocked =
                                IF next = MUTATE_AMOUNT THEN TRUE ELSE @,
                            !.mutate.scaleLocked =
                                IF next = MUTATE_RHYTHM THEN TRUE ELSE @,
                            !.mutate.cutoffLocked =
                                IF next = MUTATE_CUTOFF THEN TRUE ELSE @,
                            !.l1.lastMutatePress = t,
                            !.l1.lastMutateReadingInLoop1 = reading]
        ELSE [s EXCEPT !.l1.lastMutateReadingInLoop1 = reading]

\* the MUTATE button (the first read is skipped): a second press within
\* 500 ms toggles fullyDisabled, any other press steps to the next tier and
\* locks the parameter of the tier that is left
MutateButton(s, t) ==
    LET reading == s.mutateReading
        old     == s.mutate.mode
        next    == (old + 1) % MUTATE_MODE_COUNT
    IN  IF s.l1.firstMutateRead
        THEN [s EXCEPT !.l1.lastMutateReadingInLoop1 = reading,
                       !.l1.firstMutateRead = FALSE]
        ELSE IF reading = LOW /\ s.l1.lastMutateReadingInLoop1 = HIGH
        THEN IF t - s.l1.lastMutatePress < MutateDoubleTap
             THEN [s EXCEPT !.mutate.fullyDisabled = ~@,
                            !.l1.lastMutatePress = 0,
                            !.l1.lastMutateReadingInLoop1 = reading]
             ELSE [s EXCEPT !.mutate.mode = next,
                            !.mutate.fullyDisabled =
                                IF @ /\ next # MUTATE_OFF THEN FALSE ELSE @,
                            !.mutate.probabilityLocked =
                                IF old = MUTATE_AMOUNT THEN TRUE ELSE @,
                            !.mutate.scaleLocked =
                                IF old = MUTATE_RHYTHM THEN TRUE ELSE @,
                            !.mutate.cutoffLocked =
                                IF old = MUTATE_CUTOFF THEN TRUE ELSE @,
                            !.l1.lastMutatePress = t,
                            !.l1.lastMutateReadingInLoop1 = reading]
        ELSE [s EXCEPT !.l1.lastMutateReadingInLoop1 = reading]

RECURSIVE Gcd(_, _)
Gcd(a, b) == IF b = 0 THEN a ELSE Gcd(b, a % b)

\* a / b in lowest terms, for a >= 0 and b > 0
Fraction(a, b) == [num |-> a \div Gcd(a, b), den |-> b \div Gcd(a, b)]

\* variant: the ramp of the attack phase goes on after attackTime, and only
\* the upper clamp is applied
EnvelopeValueLinear(sc, elapsed) ==
    LET depth == Fraction(sc.depth, DepthOne)
        p == Fraction(elapsed, sc.attackTime)
    IN  IF depth.num * p.num > depth.den * p.den THEN [num |-> 0, den |-> 1]
        ELSE Fraction(depth.den * p.den - depth.num * p.num, depth.den * p.den)

\* the envelope of a triggered sidechain, elapsed (in units of 1 / AdcMax
\* ms) after the trigger: attack ramp down to 1 - depth, release ramp back
\* to 1, then 1; clamped to [1 - depth, 1]
EnvelopeValue(sc, elapsed) ==
    LET depth == Fraction(sc.depth, DepthOne)
        floor == Fraction(depth.den - depth.num, depth.den)
        one   == [num |-> 1, den |-> 1]
        raw   ==
            IF elapsed < sc.attackTime
            THEN LET p == Fraction(elapsed, sc.attackTime)
                 IN  Fraction(depth.den * p.den - depth.num * p.num,
                              depth.den * p.den)
            ELSE IF elapsed - sc.attackTime < sc.releaseTime
            THEN LET p == Fraction(elapsed - sc.attackTime, sc.releaseTime)
                 IN  Fraction((depth.den - depth.num) * p.den + depth.num * p.num,
                              depth.den * p.den)
            ELSE one
    IN  IF raw.num * floor.den < floor.num * raw.den THEN floor
        ELSE IF raw.num > raw.den THEN one
        ELSE raw

\* variant: no retrigger without an edge
AutoRetriggerNever(sc, t) == FALSE

\* AUTO-RETRIGGER: the envelope has finished and attackTime + releaseTime,
\* cut to whole ms, have gone by since the last trigger
AutoRetrigger(sc, t) ==
    /\ ~sc.triggered
    /\ t - sc.lastTriggerTime >= (sc.attackTime + sc.releaseTime) \div AdcMax

\* the sidechain envelope block of loop1.  syncEdge is syncRisingEdge of
\* this iteration; the trigger button and the keys are read directly.
SidechainEnvelope(s, syncEdge, triggerReading, keys, t) ==
    LET sc == s.sidechain
        btnOrKeyPressed == triggerReading = LOW \/ keys # {}
        loopOn == s.loopState.active /\ s.loopState.pattern # LOOP_OFF
        currentLoopGate == evaluateLoopPattern(s, t)
        external ==
            IF s.l1.syncConnected THEN syncEdge
            ELSE \/ btnOrKeyPressed /\ ~s.l1.lastBtnOrKeyState
                 \/ loopOn /\ currentLoopGate /\ ~s.l1.lastLoopGateForSidechain
        auto == AutoRetrigger(sc, t)
        shouldTrigger == external \/ auto
        triggered == sc.triggered \/ shouldTrigger
        last == IF shouldTrigger THEN t ELSE sc.lastTriggerTime
        elapsed == (t - last) * AdcMax
        finished == elapsed >= sc.attackTime
                    /\ elapsed - sc.attackTime >= sc.releaseTime
    IN  IF ~(sc.active /\ sc.enabled) THEN s
        ELSE [s EXCEPT
                !.sidechain.triggered = triggered /\ ~finished,
                !.sidechain.lastTriggerTime = last,
                !.sidechain.envelope =
                    IF triggered THEN EnvelopeValue(sc, elapsed)
                    ELSE [num |-> 1, den |-> 1],
                !.l1.lastBtnOrKeyState =
                    IF s.l1.syncConnected THEN @ ELSE btnOrKeyPressed,
                !.l1.lastLoopGateForSidechain =
                    IF ~s.l1.syncConnected /\ loopOn THEN currentLoopGate ELSE @]

\* sidechain mode: Key 8 toggles sidechain.enabled (the first read is skipped)
SidechainKey8(s, keys) ==
    LET level == IF 8 \in keys THEN LOW ELSE HIGH
    IN  IF ~s.sidechain.active THEN s
        ELSE IF s.l1.firstKey8Read
        THEN [s EXCEPT !.l1.lastKey8Reading = level, !.l1.firstKey8Read = FALSE]
        ELSE [s EXCEPT !.sidechain.enabled =
                           IF level = LOW /\ s.l1.lastKey8Reading = HIGH
                           THEN ~@ ELSE @,
                       !.l1.lastKey8Reading = level]

\* loop mode: Key 2 steps to the next pattern
LoopKey2(s, keys, t) ==
    LET level == IF 2 \in keys THEN LOW ELSE HIGH
    IN  IF ~s.loopState.active THEN s
        ELSE IF level = LOW /\ s.l1.lastKey2State = HIGH
        THEN [s EXCEPT !.loopState.pattern = (@ + 1) % LOOP_COUNT,
                       !.loopState.patternStartTime = t,
                       !.l1.lastKey2State = level]
        ELSE [s EXCEPT !.l1.lastKey2State = level]

\* ---------------------------------------------------------------------
\* generateSample(), called at the end of every loop1 iteration
\* ---------------------------------------------------------------------
\* variant: the cursor wraps whatever the loop flag says
RecorderPlaybackAlwaysWraps(s) ==
    IF ~s.recorder.playing THEN s
    ELSE IF s.recorder.recordPosition < s.recorder.recordLength
    THEN [s EXCEPT !.recorder.recordPosition = @ + 1]
    ELSE [s EXCEPT !.recorder.recordPosition = 1]

\* record mode playback: the cursor
RecorderPlayback(s) ==
    IF ~s.recorder.playing THEN s
    ELSE IF s.recorder.recordPosition < s.recorder.recordLength
    THEN [s EXCEPT !.recorder.recordPosition = @ + 1]
    ELSE IF s.recorder.loopEnabled
    THEN [s EXCEPT !.recorder.recordPosition = 1]
    ELSE [s EXCEPT !.recorder.playing = FALSE, !.recorder.recordPosition = 0]

SequencerSounds(s) == s.sequencer.active /\ s.sequencer.running

\* sequencer voice: the gate length check
SequencerGate(s, t) ==
    LET noteElapsed  == t - s.sequencer.noteStartTime
        noteDuration == (s.sequencer.stepInterval * s.sequencer.gateLength) \div 100
    IN  IF SequencerSounds(s) /\ noteElapsed >= noteDuration
        THEN [s EXCEPT !.sequencer.noteActive = FALSE]
        ELSE s

\* variant: the voice sounds whenever the note is active
SequencerSampleAnyStep(s, smp) ==
    IF s.sequencer.noteActive THEN smp ELSE 0

\* sequencer voice: filteredSample.  A step that is enabled and whose note
\* is active gives the synthesised value smp; otherwise the code writes 0.
SequencerSample(s, smp) ==
    IF s.sequencer.stepEnabled[s.sequencer.currentStep] /\ s.sequencer.noteActive
    THEN smp
    ELSE 0

\* record the final mix; a full buffer stops the recording
RecordWrites(s) ==
    s.recorder.recording /\ s.recorder.recordPosition < MAX_RECORD_SAMPLES

\* variant: the buffer-full test is off by one
RecorderCaptureLate(s) ==
    IF RecordWrites(s)
    THEN IF s.recorder.recordPosition + 1 > MAX_RECORD_SAMPLES
         THEN [s EXCEPT !.recorder.recordPosition = @ + 1,
                        !.recorder.recording = FALSE,
                        !.recorder.hasRecording = TRUE,
                        !.recorder.recordLength = s.recorder.recordPosition + 1]
         ELSE [s EXCEPT !.recorder.recordPosition = @ + 1]
    ELSE s

RecorderCapture(s) ==
    IF RecordWrites(s)
    THEN IF s.recorder.recordPosition + 1 >= MAX_RECORD_SAMPLES
         THEN [s EXCEPT !.recorder.recordPosition = @ + 1,
                        !.recorder.recording = FALSE,
                        !.recorder.hasRecording = TRUE,
                        !.recorder.recordLength = s.recorder.recordPosition + 1]
         ELSE [s EXCEPT !.recorder.recordPosition = @ + 1]
    ELSE s

\* drone voice: the fade envelope, in units of 1 / DroneFadeMs
generateDroneSample(s, t) ==
    LET shouldMakeSound == \/ s.drone.playMode = 2
                           \/ s.drone.playMode = 1 /\ s.rk.numKeysHeld > 0
        elapsed == t - s.drone.fadeStartTime
    IN  IF ~s.drone.active THEN s
        ELSE [s EXCEPT !.drone.envelope =
                           IF elapsed < DroneFadeMs
                           THEN IF shouldMakeSound THEN elapsed
                                ELSE DroneFadeMs - elapsed
                           ELSE IF shouldMakeSound THEN DroneFadeMs ELSE 0]

\* (uint32_t)((lfo2.rate * 4294967296.0f) / SAMPLE_RATE) for the rate of
\* 2 Hz that lfo2 has from boot: 389566 = 5 * 2^16 + 61886
lfo2Increment == [hi |-> 5, lo |-> 61886]

\* lfo2.phase += increment; the uint32_t is kept as its two 16-bit halves
AdvanceLfo2(s) ==
    IF s.lfo2.enabled
    THEN LET lo == s.lfo2.phase.lo + lfo2Increment.lo
             hi == s.lfo2.phase.hi + lfo2Increment.hi + lo \div 65536
         IN  [s EXCEPT !.lfo2.phase = [hi |-> hi % 65536, lo |-> lo % 65536]]
    ELSE s

\* the voice branch of generateSample: the dub siren's synthesis chain
\* runs unless the sequencer is running or another instrument is selected
DubSirenLfo2(s) ==
    IF ~(s.sequencer.active /\ s.sequencer.running) /\ s.siren.instrumentType = 0
    THEN AdvanceLfo2(s)
    ELSE s

generateSample(s, t) ==
    RecorderCapture(generateDroneSample(
        DubSirenLfo2(SequencerGate(RecorderPlayback(AdvanceLfo2(s)), t)), t))

\* the state before the mode branch: inputs sampled
Loop1Inputs(s, triggerReading, syncInputHigh, t) ==
    SyncInput(TriggerDebounce(s, triggerReading, t), syncInputHigh, t)

\* the state after the mode branch
Loop1Trigger(s, triggerReading, syncInputHigh, keys, t) ==
    LET s1   == Loop1Inputs(s, triggerReading, syncInputHigh, t)
        edge == syncRisingEdge(s, syncInputHigh)
    IN  IF Loop1Branch(s1) = "drone" THEN DroneTrigger(s1, t)
        ELSE IF Loop1Branch(s1) = "sequencer" THEN SequencerTrigger(s1, edge, t)
        ELSE NormalTrigger(s1, edge, keys, t)

Loop1Fn(s, triggerReading, syncInputHigh, keys, t) ==
    LET s2 == Loop1Trigger(s, triggerReading, syncInputHigh, keys, t)
        s3 == [s2 EXCEPT !.l1.lastSyncState = syncInputHigh]
        sc == SidechainEnvelope(s3, syncRisingEdge(s, syncInputHigh),
                                triggerReading, keys, t)
        s4 == LoopKey2(SidechainKey8(MutateButton(sc, t), keys), keys, t)
    IN  generateSample(s4, t)

\* what the iteration saw and did
Loop1Obs(s, triggerReading, syncInputHigh, keys, smp, t) ==
    LET s1   == Loop1Inputs(s, triggerReading, syncInputHigh, t)
        edge == syncRisingEdge(s, syncInputHigh)
        kind == IF Loop1Branch(s1) = "sequencer"
                THEN SeqAdvanceKind(SeqToggle(s1, t), edge, t) ELSE "none"
        s2   == Loop1Trigger(s, triggerReading, syncInputHigh, keys, t)
        s4   == LoopKey2(SidechainKey8(MutateButton(s2, t), keys), keys, t)
        s6   == SequencerGate(RecorderPlayback(s4), t)
        held == keyPressed(s1, keys) \/ buttonTriggered(s1)
        from == IF Loop1Branch(s1) = "sequencer"
                THEN SeqToggle(s1, t).sequencer.currentStep
                ELSE s.sequencer.currentStep
        started == ~s.sequencer.running /\ s2.sequencer.running
        moved == kind # "none" /\ s2.sequencer.noteActive
    IN  [obs EXCEPT
            !.op = "loop1", !.pressed = FALSE,
            !.branch = Loop1Branch(s1),
            !.keyPressed = keyPressed(s1, keys),
            !.buttonTriggered = buttonTriggered(s1),
            !.patternGate = evaluateLoopPattern(s1, t),
            !.syncEdge = edge,
            !.syncSeen = @ \/ (syncInputHigh # s.l1.lastSyncState),
            !.edgeAt = IF Loop1Branch(s1) = "normal" /\ held THEN -1
                       ELSE IF Loop1Branch(s1) = "normal" /\ edge THEN t
                       ELSE @,
            !.anyEdgeAt = IF edge THEN t ELSE @,
            !.keys = keys,
            !.advance = kind,
            !.fromStep = from,
            !.seqOut = IF SequencerSounds(s6) THEN SequencerSample(s6, smp)
                       ELSE "off",
            !.wrote = IF RecordWrites(s6) THEN s6.recorder.recordPosition ELSE -1,
            !.entered = IF s4.mutate.mode # s.mutate.mode
                           /\ s4.mutate.mode # MUTATE_OFF
                        THEN "yes"
                        ELSE IF @ = "read" THEN "no" ELSE @,
            !.readAt = IF ~s4.recorder.playing THEN -1
                       ELSE IF s4.recorder.recordPosition < s4.recorder.recordLength
                       THEN s4.recorder.recordPosition
                       ELSE IF s4.recorder.loopEnabled THEN 0 ELSE -1,
            !.playEnd = IF ~s4.recorder.playing
                           \/ s4.recorder.recordPosition < s4.recorder.recordLength
                        THEN "none"
                        ELSE IF s4.recorder.loopEnabled THEN "wrap" ELSE "stop",
            !.startAt = IF ~s2.sequencer.running THEN -1
                        ELSE IF started THEN t ELSE @,
            !.steps = IF ~s2.sequencer.running \/ started
                      THEN (IF moved THEN 1 ELSE 0)
                      ELSE IF moved THEN @ + 1 ELSE @,
            !.inOrder = (IF ~s2.sequencer.running \/ started THEN TRUE ELSE @)
                        /\ (moved => s2.sequencer.currentStep = (from + 1) % 8)]

Loop1(dt, triggerReading, syncInputHigh, keys, smp) ==
    /\ now' = now + dt
    /\ Commit(Loop1Fn(Globals, triggerReading, syncInputHigh, keys, now + dt))
    /\ obs' = Loop1Obs(Globals, triggerReading, syncInputHigh, keys, smp, now + dt)

\* one iteration that samples the MUTATE button and consumes draws
Loop1With(dt, triggerReading, syncInputHigh, mutateReading, keys, draws, smp) ==
    LET s == [Globals EXCEPT !.random = draws, !.mutateReading = mutateReading]
    IN  /\ now' = now + dt
        /\ Commit(Loop1Fn(s, triggerReading, syncInputHigh, keys, now + dt))
        /\ obs' = Loop1Obs(s, triggerReading, syncInputHigh, keys, smp, now + dt)

\* millis() advancing between two polls of the control task.
ClockAdvance ==
    /\ now + PollGap <= SetupDelay + MaxPolls * PollGap
    /\ now' = now + PollGap
    /\ obs' = [obs EXCEPT !.op = "clock", !.pressed = FALSE]
    /\ Commit(Globals)

\* ---------------------------------------------------------------------
\* The control task with the function-shift button and the mode keys: a
\* key goes down only while function shift is held (a chord), one key at
\* a time, for the sequencer, recorder, reverser and hold modes.
\* ---------------------------------------------------------------------
ModeInit ==
    /\ now = SetupDelay
    /\ StartIn(BootGlobals)
    /\ obs = ObsInit

ModeNext ==
    \/ \E reading \in {HIGH, LOW} : ReadButtons(reading)
    \/ \E keys \in {{}, {1}, {3}, {4}, {5}} :
          /\ keys # {} => isFunctionShiftHeld(Globals)
          /\ ReadKeyboard(keys)
    \/ ClockAdvance

SpecMode == ModeInit /\ [][ModeNext]_vars

\* ---------------------------------------------------------------------
\* C1: a special-function mode is deactivated only by a function-shift
\* press that follows the previous function-shift press by less than
\* 500 ms; a single press (no press in the preceding 500 ms) leaves every
\* mode's active flag unchanged.
\* ---------------------------------------------------------------------
C1_ExitOnlyOnDoublePress ==
    [][LET ShiftPressStep == obs'.op = "readButtons" /\ obs'.pressed
           IsDoublePress == obs.prevPress # -1 /\ (now - obs.prevPress) < DoublePressWindow
    IN  /\ (\E m \in ModeNames : ActiveFlags[m] /\ ~ActiveFlags'[m])
            => (ShiftPressStep /\ IsDoublePress)
        /\ (ShiftPressStep /\ ~IsDoublePress) => (ActiveFlags' = ActiveFlags)
      ]_vars

\* =====================================================================
\* Normal mode under the audio task alone: trigger button, sync input and
\* keys drive the trigger priority system.  The audio loop takes 45 us; the
\* iterations that fall into one millisecond see the same millis() and,
\* with unchanged inputs, repeat the same assignments, so one iteration per
\* millisecond is modelled.
\* =====================================================================
\* inputs keep their last sampled value between grid instants
InputsHeld(triggerReading, syncInputHigh, keys) ==
    /\ triggerReading = l1.lastTriggerReading
    /\ syncInputHigh = l1.lastSyncState
    /\ keys = obs.keys

\* gate preset chosen by the gate button and loop mode entered or not before
\* the scenario starts
TrigInit ==
    /\ now = 0
    /\ obs = ObsInit
    /\ \E gm \in (0 .. (GATE_MODE_COUNT - 1)), lp \in BOOLEAN :
          StartIn([BootGlobals EXCEPT
              !.siren.gateMode = gm,
              !.loopState.active = lp,
              !.loopState.pattern = IF lp THEN LOOP_TRIPLET ELSE LOOP_OFF])

TrigNext ==
    \E triggerReading \in {HIGH, LOW}, syncInputHigh \in BOOLEAN,
       keys \in {{}, {1}} :
        /\ now + 1 <= MaxTrigTime
        /\ (now + 1) % InputGrid = 1 \/ InputsHeld(triggerReading, syncInputHigh, keys)
        /\ Loop1(1, triggerReading, syncInputHigh, keys, 0)

SpecTrig == TrigInit /\ [][TrigNext]_vars

\* C2: in normal mode, after every audio tick, siren.triggered is set by one
\* source with priority keyboard > button > sync: with a playable key held
\* it equals the loop-pattern gate whatever the button and the sync input
\* do; else with the trigger button held it equals the loop-pattern gate
\* whatever sync does; only with neither held it is the sync-opened timed
\* gate.
C2_TriggerPriority ==
    LET NormalTick == obs.op = "loop1" /\ obs.branch = "normal"
        SyncGateDue ==
            /\ obs.edgeAt # -1
            /\ (now - obs.edgeAt) < gateTimesMs[siren.gateMode + 1]
    IN
    NormalTick =>
        IF obs.keyPressed \/ obs.buttonTriggered
        THEN siren.triggered = obs.patternGate
        ELSE siren.triggered = SyncGateDue

\* the button is held while the loop pattern gate is off, and a sync edge
\* younger than the gate time does not open the output
C2_Witness ==
    LET NormalTick == obs.op = "loop1" /\ obs.branch = "normal"
    IN
    /\ NormalTick
    /\ ~obs.keyPressed /\ obs.buttonTriggered
    /\ ~obs.patternGate /\ ~siren.triggered
    /\ obs.anyEdgeAt # -1
    /\ (now - obs.anyEdgeAt) < gateTimesMs[siren.gateMode + 1]

\* C8: with no key and no trigger button held, a sync rising edge opens
\* the gate (gateActive and triggered true); the gate closes by itself once
\* gateTimesMs[gateMode] ms have passed since that edge, and triggered stays
\* false until the next sync edge or press.
C8_SyncGateTimed ==
    LET NormalTick == obs.op = "loop1" /\ obs.branch = "normal"
        SyncGateDue ==
            /\ obs.edgeAt # -1
            /\ (now - obs.edgeAt) < gateTimesMs[siren.gateMode + 1]
    IN
    (NormalTick /\ ~obs.keyPressed /\ ~obs.buttonTriggered) =>
        /\ obs.syncEdge => (siren.gateActive /\ siren.triggered)
        /\ siren.gateActive = SyncGateDue
        /\ siren.triggered = siren.gateActive
        /\ siren.gateActive => siren.gateStartTime = obs.edgeAt

\* the longest gate has just closed by itself, exactly 1000 ms after its edge
C8_Witness ==
    LET NormalTick == obs.op = "loop1" /\ obs.branch = "normal"
    IN
    /\ NormalTick /\ ~obs.keyPressed /\ ~obs.buttonTriggered
    /\ siren.gateMode = 3
    /\ obs.edgeAt # -1
    /\ (now - obs.edgeAt) = gateTimesMs[siren.gateMode + 1]
    /\ ~siren.gateActive /\ ~siren.triggered

\* =====================================================================
\* Sequencer mode: the audio task with trigger button and sync input, the
\* control task's keyboard scan toggling step 1.
\* =====================================================================
\* the state after Function + Key 1, with steps toggled and the speed pot
\* turned before the scenario starts
SeqGlobals(enabled, interval) ==
    [HandleFunctionKey(BootGlobals, 1, 0) EXCEPT
        !.sequencer.stepEnabled = [i \in 0..7 |-> i \in enabled],
        !.sequencer.stepInterval = interval]

SeqInit ==
    /\ now = 0
    /\ obs = ObsInit
    /\ \E enabled \in {0..7, {0, 2, 5}, {}} : StartIn(SeqGlobals(enabled, MinStepInterval))

SeqTick(grid, horizon) ==
    \E triggerReading \in {HIGH, LOW}, syncInputHigh \in BOOLEAN,
       smp \in {0, 20000} :
        /\ now + 1 <= horizon
        /\ (now + 1) % grid = 1 \/ InputsHeld(triggerReading, syncInputHigh, {})
        /\ Loop1(1, triggerReading, syncInputHigh, {}, smp)

SeqScan ==
    \E keys \in {{}, {1}} :
        /\ now % SeqGrid = 1
        /\ ReadKeyboard(keys)

SeqNext == SeqTick(SeqGrid, MaxSeqTime) \/ SeqScan

SpecSeq == SeqInit /\ [][SeqNext]_vars

\* C3: while the sequencer runs with steps disabled, every step transition
\* sets currentStep to an enabled step (the first one after the old step);
\* with all 8 steps disabled the sequencer voice gives 0 on every tick.
C3_SkipsDisabledSteps ==
    LET SequencerTick == obs.op = "loop1" /\ obs.branch = "sequencer"
        SomeEnabled == \E i \in 0..7 : sequencer.stepEnabled[i]
        NextEnabledAfter(step) ==
            LET k == CHOOSE k \in 1..8 :
                         /\ sequencer.stepEnabled[(step + k) % 8]
                         /\ \A j \in 1..(k - 1) : ~sequencer.stepEnabled[(step + j) % 8]
            IN  (step + k) % 8
    IN
    (SequencerTick /\ sequencer.running) =>
        /\ (obs.advance # "none" /\ SomeEnabled) =>
               /\ sequencer.stepEnabled[sequencer.currentStep]
               /\ sequencer.currentStep = NextEnabledAfter(obs.fromStep)
        /\ ~SomeEnabled => obs.seqOut = 0

\* a transition that jumped over at least one disabled step
C3_Witness ==
    LET SequencerTick == obs.op = "loop1" /\ obs.branch = "sequencer"
    IN
    /\ SequencerTick /\ sequencer.running
    /\ obs.advance # "none"
    /\ sequencer.currentStep # (obs.fromStep + 1) % 8
    /\ sequencer.stepEnabled[sequencer.currentStep]
    /\ ~sequencer.stepEnabled[(obs.fromStep + 1) % 8]

\* C4: in every state in which the sequencer is running, currentStep
\* indexes an enabled step (also right after TRIGGER started it and after
\* steps were toggled while it runs), or no step is enabled and the
\* sequencer is silent.
C4_CurrentStepEnabled ==
    LET SomeEnabled == \E i \in 0..7 : sequencer.stepEnabled[i]
    IN
    (sequencer.active /\ sequencer.running) =>
        \/ sequencer.stepEnabled[sequencer.currentStep]
        \/ (~SomeEnabled /\ (obs.op = "loop1" => obs.seqOut = 0))

\* C4 as the code has it: a running sequencer either stands on an enabled
\* step or its voice gives 0 on that tick; TRIGGER starts it on step 1 and
\* a toggle leaves currentStep alone, whether or not that step is enabled.
C4_EnabledOrSilent ==
    LET SequencerTick == obs.op = "loop1" /\ obs.branch = "sequencer"
    IN
    (SequencerTick /\ sequencer.running) =>
        \/ sequencer.stepEnabled[sequencer.currentStep]
        \/ obs.seqOut = 0

\* running on a disabled step while other steps are enabled, and silent
C4_Witness ==
    LET SequencerTick == obs.op = "loop1" /\ obs.branch = "sequencer"
        SomeEnabled == \E i \in 0..7 : sequencer.stepEnabled[i]
    IN
    /\ SequencerTick /\ sequencer.running
    /\ ~sequencer.stepEnabled[sequencer.currentStep]
    /\ SomeEnabled
    /\ obs.seqOut = 0

\* C6: while the sequencer runs and sync counts as connected, the step
\* advances exactly on the ticks that see a sync rising edge, once per edge,
\* and never by the stepInterval timer; the timer advances steps only while
\* sync counts as disconnected.
C6_SyncAdvancesWhileConnected ==
    LET SequencerTick == obs.op = "loop1" /\ obs.branch = "sequencer"
        SomeEnabled == \E i \in 0..7 : sequencer.stepEnabled[i]
        NextEnabledAfter(step) ==
            LET k == CHOOSE k \in 1..8 :
                         /\ sequencer.stepEnabled[(step + k) % 8]
                         /\ \A j \in 1..(k - 1) : ~sequencer.stepEnabled[(step + j) % 8]
            IN  (step + k) % 8
    IN
    (SequencerTick /\ sequencer.running) =>
        /\ l1.syncConnected =>
               /\ (obs.advance = "sync") = obs.syncEdge
               /\ obs.advance # "timer"
        /\ obs.advance = "timer" => ~l1.syncConnected
        /\ (obs.advance = "sync" /\ SomeEnabled) =>
               sequencer.currentStep = NextEnabledAfter(obs.fromStep)

\* sync is connected and a full stepInterval has passed without an edge:
\* the step stays
C6_Witness ==
    LET SequencerTick == obs.op = "loop1" /\ obs.branch = "sequencer"
    IN
    /\ SequencerTick /\ sequencer.running
    /\ l1.syncConnected /\ ~obs.syncEdge
    /\ obs.advance = "none"
    /\ obs.steps > 0
    /\ (now - sequencer.lastStepTime) >= sequencer.stepInterval

\* =====================================================================
\* The running sequencer over more than the sync timeout: all steps
\* enabled, default stepInterval.
\* =====================================================================
RunInit ==
    /\ now = 0
    /\ obs = ObsInit
    /\ StartIn(SeqGlobals(0..7, SequencerInit.stepInterval))

RunNext == SeqTick(RunGrid, MaxRunTime)

SpecRun == RunInit /\ [][RunNext]_vars

\* C5: sync disconnected, all 8 steps enabled, stepInterval = 250 ms: the
\* running sequencer has made exactly elapsed / 250 step transitions, each
\* from step s to step (s + 1) % 8, so exactly 8 when 2000 ms have passed.
C5_EightStepsIn2000ms ==
    LET SequencerTick == obs.op = "loop1" /\ obs.branch = "sequencer"
        AllEnabled == \A i \in 0..7 : sequencer.stepEnabled[i]
    IN
    (SequencerTick /\ sequencer.running /\ ~obs.syncSeen /\ AllEnabled
        /\ sequencer.stepInterval = 250) =>
        /\ obs.steps = (now - obs.startAt) \div 250
        /\ obs.inOrder
        /\ sequencer.currentStep = obs.steps % 8
        /\ (now - obs.startAt) = 2000 => obs.steps = 8

\* 2000 ms after the start, the eighth transition has just happened
C5_Witness ==
    LET SequencerTick == obs.op = "loop1" /\ obs.branch = "sequencer"
        AllEnabled == \A i \in 0..7 : sequencer.stepEnabled[i]
    IN
    /\ SequencerTick /\ sequencer.running /\ ~obs.syncSeen /\ AllEnabled
    /\ sequencer.stepInterval = 250
    /\ (now - obs.startAt) = 2000
    /\ obs.steps = 8 /\ obs.advance = "timer"
    /\ sequencer.currentStep = 0

\* C7: after more than 2000 ms without sync activity the input counts as
\* disconnected and a running sequencer advances on its stepInterval timer
\* again; sync counts as connected only while its last activity is at most
\* 2000 ms old.
C7_SyncTimeout ==
    LET SequencerTick == obs.op = "loop1" /\ obs.branch = "sequencer"
    IN
    obs.op = "loop1" =>
        /\ l1.syncConnected =
               (obs.syncSeen /\ (now - l1.lastSyncActivityTime) <= SyncTimeout)
        /\ (SequencerTick /\ sequencer.running /\ ~l1.syncConnected) =>
               (now - sequencer.lastStepTime) < sequencer.stepInterval

\* sync was active, timed out, and the timer advances the step again
C7_Witness ==
    LET SequencerTick == obs.op = "loop1" /\ obs.branch = "sequencer"
    IN
    /\ SequencerTick /\ sequencer.running
    /\ obs.syncSeen /\ ~l1.syncConnected
    /\ (now - l1.lastSyncActivityTime) > SyncTimeout
    /\ obs.advance = "timer"

\* =====================================================================
\* Record mode: the control task scans Key 3 / Key 4 and the function-shift
\* button, the audio task records and plays back sample by sample.
\* =====================================================================
\* Function held (debounced), Function + Key 3, Function released
RecordModeEntered ==
    LET s1 == ReadButtonsFn(BootGlobals, LOW, SetupDelay)
        s2 == ReadButtonsFn(s1, LOW, SetupDelay + ButtonDebounce + 1)
        s3 == ReadKeyboardFn(s2, {3}, SetupDelay + ButtonDebounce + 1)
        s4 == ReadButtonsFn(s3, HIGH, SetupDelay + ButtonDebounce + 2)
    IN  ReadButtonsFn(s4, HIGH, SetupDelay + 2 * ButtonDebounce + 3)

RecInit ==
    /\ now = SetupDelay + PollGap
    /\ obs = ObsInit
    /\ \/ StartIn(RecordModeEntered)
       \* Key 3 released and pressed again: a recording under way,
       \* MAX_RECORD_SAMPLES - MaxRecTicks samples in
       \/ LET s1 == ReadKeyboardFn(RecordModeEntered, {}, SetupDelay + PollGap)
              s2 == ReadKeyboardFn(s1, {3}, SetupDelay + PollGap)
          IN  StartIn([s2 EXCEPT !.recorder.recordPosition =
                                     MAX_RECORD_SAMPLES - MaxRecTicks])

\* one audio iteration; a pass is followed for MaxRecTicks samples
RecTick ==
    /\ \/ recorder.recordPosition < MaxRecTicks
       \/ recorder.recordPosition >= MAX_RECORD_SAMPLES - MaxRecTicks
    /\ Loop1(0, HIGH, FALSE, {}, 0)

RecNext ==
    \/ RecTick
    \/ \E keys \in {{}, {3}, {4}} : ReadKeyboard(keys)
    \/ \E reading \in {HIGH, LOW} : ReadButtons(reading)
    \/ ClockAdvance

SpecRec == RecInit /\ [][RecNext]_vars

\* Record mode entered after a boot in which malloc returned the record
\* buffer or failed.  A load or store through the null pointer is taken to
\* leave the recorder's fields alone.
AllocInit ==
    /\ now = SetupDelay + PollGap
    /\ obs = ObsInit
    /\ \E buffer \in {"allocated", "nullptr"} :
          StartIn([RecordModeEntered EXCEPT !.recorder.buffer = buffer])

SpecAlloc == AllocInit /\ [][RecNext]_vars

\* C9: in record mode, successive Key 3 presses drive the recorder through
\* Idle -> Recording -> Idle(has-recording) -> Playing -> Idle, one
\* transition per press, and the key causes no other transition.
C9_FourStateCycle ==
    [][LET RecState ==
               IF recorder.recording THEN "Recording"
               ELSE IF recorder.playing THEN "Playing"
               ELSE IF recorder.hasRecording THEN "IdleHasRecording"
               ELSE "Idle"
           RecordScanStep == obs'.op = "readKeyboard" /\ recorder.active
    IN RecordScanStep =>
          IF obs'.key3Edge
          THEN RecState' = CASE RecState = "Idle" -> "Recording"
                             [] RecState = "Recording" -> "IdleHasRecording"
                             [] RecState = "IdleHasRecording" -> "Playing"
                             [] RecState = "Playing" -> "Idle"
          ELSE RecState' = RecState
      ]_vars

\* C9 as the code has it: a press while playing stops the playback and
\* keeps the recording: Playing -> Idle(has-recording), so further presses
\* alternate between Playing and Idle(has-recording).
C9_CycleKeepsRecording ==
    [][LET RecState ==
               IF recorder.recording THEN "Recording"
               ELSE IF recorder.playing THEN "Playing"
               ELSE IF recorder.hasRecording THEN "IdleHasRecording"
               ELSE "Idle"
           RecordScanStep == obs'.op = "readKeyboard" /\ recorder.active
    IN RecordScanStep =>
          IF obs'.key3Edge
          THEN RecState' = CASE RecState = "Idle" -> "Recording"
                             [] RecState = "Recording" -> "IdleHasRecording"
                             [] RecState = "IdleHasRecording" -> "Playing"
                             [] RecState = "Playing" -> "IdleHasRecording"
          ELSE RecState' = RecState
      ]_vars

\* a Key 3 press has just stopped a playback; the recording is still there
C9_Witness ==
    LET RecState ==
            IF recorder.recording THEN "Recording"
            ELSE IF recorder.playing THEN "Playing"
            ELSE IF recorder.hasRecording THEN "IdleHasRecording"
            ELSE "Idle"
    IN
    /\ obs.op = "readKeyboard" /\ obs.key3Edge
    /\ recorder.active
    /\ RecState = "IdleHasRecording"
    /\ recorder.recordPosition = 0 /\ recorder.recordLength > 0

\* C10: a recording that reaches the buffer capacity stops by itself at
\* exactly 110,250 samples: recording false, hasRecording true,
\* recordLength = 110,250, and nothing more is written to the buffer until
\* the recorder is reset.
C10_AutoStopAtCapacity ==
    /\ recorder.recordPosition <= MAX_RECORD_SAMPLES
    /\ recorder.recording => recorder.recordPosition < MAX_RECORD_SAMPLES
    /\ (obs.op = "loop1" /\ obs.wrote = MAX_RECORD_SAMPLES - 1) =>
           /\ ~recorder.recording /\ recorder.hasRecording
           /\ recorder.recordLength = MAX_RECORD_SAMPLES
    /\ (recorder.hasRecording /\ recorder.recordLength = MAX_RECORD_SAMPLES) =>
           /\ ~recorder.recording
           /\ (obs.op = "loop1" /\ obs.wrote # -1) =>
                  obs.wrote = MAX_RECORD_SAMPLES - 1

\* the buffer is full, Key 3 was pressed since, and an audio tick wrote
\* nothing
C10_Witness ==
    /\ obs.op = "loop1" /\ obs.wrote = -1
    /\ recorder.hasRecording /\ ~recorder.recording
    /\ recorder.recordLength = MAX_RECORD_SAMPLES
    /\ recorder.playing /\ recorder.recordPosition > 0

\* C11: during playback the cursor wraps to the start only when it has
\* reached the end of the recording and the loop flag is enabled; with the
\* loop flag disabled it never wraps and playback ends (playing false).
C11_WrapOnlyIfLoopEnabled ==
    [][LET PlaybackTick == obs'.op = "loop1" /\ recorder.playing
           AtEndOfRecording == recorder.recordPosition >= recorder.recordLength
    IN PlaybackTick =>
          /\ (recorder.playing' /\ recorder.recordPosition' <= recorder.recordPosition)
                 => (recorder.loopEnabled /\ AtEndOfRecording)
          /\ (AtEndOfRecording /\ recorder.loopEnabled)
                 => (recorder.playing' /\ recorder.recordPosition' = 1)
          /\ (AtEndOfRecording /\ ~recorder.loopEnabled)
                 => (~recorder.playing' /\ recorder.recordPosition' = 0)
          /\ ~AtEndOfRecording
                 => (recorder.playing'
                     /\ recorder.recordPosition' = recorder.recordPosition + 1)
      ]_vars

\* a playback with the loop flag off has just ended at the end of a
\* recording of at least two samples
C11_Witness ==
    /\ obs.op = "loop1" /\ obs.playEnd = "stop"
    /\ ~recorder.playing /\ ~recorder.loopEnabled
    /\ recorder.hasRecording /\ recorder.recordLength >= 2
    /\ recorder.recordPosition = 0

\* =====================================================================
\* The mutation engine under the audio task: normal mode, with the MUTATE
\* button, the trigger button, the sync input and Key 1.  The iterations
\* looked at are MutGap ms apart; the inputs keep their levels in between.
\* A scenario starts at boot or after the MUTATE button was pressed up to
\* four times, with nothing else touched, and lasts MaxMutJumps iterations.
\* =====================================================================
MutInit ==
    /\ now = SetupDelay
    /\ StartIn(BootGlobals)
    /\ obs = ObsInit

\* the lead-in: iterations MutGap ms apart with the MUTATE button up and
\* down in turn and no trigger input, until the button was pressed four
\* times and the tier is OFF again (obs.horizon is 0 during the lead-in)
MutLeadIn ==
    /\ obs.horizon = 0
    /\ now + MutGap <= SetupDelay + 2 * MUTATE_MODE_COUNT * MutGap
    /\ Loop1With(MutGap, HIGH, FALSE,
                 IF l1.firstMutateRead \/ l1.lastMutateReadingInLoop1 = LOW
                 THEN HIGH ELSE LOW,
                 {}, RandomInit, 0)

\* the scenario proper begins
MutStart ==
    /\ obs.horizon = 0
    /\ obs' = [obs EXCEPT !.op = "start", !.pressed = FALSE,
                          !.horizon = now + MaxMutJumps * MutGap]
    /\ Commit(Globals)
    /\ UNCHANGED now

MutTick ==
    /\ obs.horizon > 0
    /\ now + MutGap <= obs.horizon
    /\ \E in \in
            \* nothing, Key 1, the trigger button, the sync input, Key 1 and sync
            {[triggerReading |-> HIGH, syncInputHigh |-> FALSE, keys |-> {}],
             [triggerReading |-> HIGH, syncInputHigh |-> FALSE, keys |-> {1}],
             [triggerReading |-> LOW,  syncInputHigh |-> FALSE, keys |-> {}],
             [triggerReading |-> HIGH, syncInputHigh |-> TRUE,  keys |-> {}],
             [triggerReading |-> HIGH, syncInputHigh |-> TRUE,  keys |-> {1}]},
          mutateReading \in {HIGH, LOW},
          draws \in
            \* octave jump up and down, two steps up and down, one step up and down
            {[pitch |-> 5,  sign |-> 0, speed |-> 2, modulation |-> 40],
             [pitch |-> 5,  sign |-> 1, speed |-> 0, modulation |-> 0],
             [pitch |-> 20, sign |-> 0, speed |-> 1, modulation |-> 20],
             [pitch |-> 20, sign |-> 1, speed |-> 1, modulation |-> 25],
             [pitch |-> 70, sign |-> 0, speed |-> 2, modulation |-> 30],
             [pitch |-> 70, sign |-> 1, speed |-> 0, modulation |-> 10]} :
          Loop1With(MutGap, in.triggerReading, in.syncInputHigh, mutateReading,
                    in.keys, draws, 0)

MutNext == MutLeadIn \/ MutStart \/ MutTick

SpecMut == MutInit /\ [][MutNext]_vars

\* ---------------------------------------------------------------------
\* C12: whenever mutation is enabled (a tier >= 1 is selected and mutation
\* is not fully disabled), every trigger rising edge - a new key press
\* after all keys were released, a new trigger-button press, a sync rising
\* edge - invokes the mutation engine, unless its 100 ms rate limit
\* refuses.
\* ---------------------------------------------------------------------
C12_EveryEdgeMutates ==
    [][LET EngineRan == mutate'.lastMutateTime = now' /\ mutate.lastMutateTime # now'
           MutationEnabled == mutate.mode # MUTATE_OFF /\ ~mutate.fullyDisabled
           NewKeyPress == obs'.keyPressed /\ ~obs.keyPressed
           NewButtonPress ==
               ~obs'.keyPressed /\ obs'.buttonTriggered /\ ~obs.buttonTriggered
           SyncEdgeServed == ~obs'.keyPressed /\ ~obs'.buttonTriggered /\ obs'.syncEdge
           RateLimitPassed == now' - mutate.lastMutateTime >= MutateMinGap
    IN (/\ obs'.op = "loop1" /\ obs'.branch = "normal"
        /\ MutationEnabled /\ RateLimitPassed
        /\ (NewKeyPress \/ NewButtonPress \/ SyncEdgeServed))
           => EngineRan]_vars

PotSpeedValue == 2048
PotModValue == 819

PotStart ==
    /\ obs.horizon = 0
    /\ obs' = [obs EXCEPT !.op = "start", !.pressed = FALSE,
                          !.horizon = now + MaxPotJumps * MutGap]
    /\ Commit(Globals)
    /\ UNCHANGED now

PotTick ==
    /\ obs.horizon > 0
    /\ now + MutGap <= obs.horizon
    /\ \E syncInputHigh \in BOOLEAN, mutateReading \in {HIGH, LOW},
          draws \in {[pitch |-> 5,  sign |-> 0, speed |-> 2, modulation |-> 40],
                     [pitch |-> 5,  sign |-> 1, speed |-> 0, modulation |-> 0],
                     [pitch |-> 70, sign |-> 0, speed |-> 2, modulation |-> 30],
                     [pitch |-> 70, sign |-> 1, speed |-> 0, modulation |-> 10]} :
          Loop1With(MutGap, HIGH, syncInputHigh, mutateReading, {}, draws, 0)

PotRead ==
    /\ obs.horizon > 0
    \* pot 1 fully left (probability 1, chromatic), at the unlock threshold
    \* from the boot snapshot 2048 and one count beyond it, fully right
    \* (probability 0, minor pentatonic)
    /\ \E pitchRaw \in {0, 2048 + UNLOCK_THRESHOLD, 2049 + UNLOCK_THRESHOLD, AdcMax} :
          ReadPotentiometers(pitchRaw, PotSpeedValue, PotModValue)

PotNext == MutLeadIn \/ PotStart \/ PotTick \/ PotRead

SpecPot == MutInit /\ [][PotNext]_vars

\* ---------------------------------------------------------------------
\* C13: with mutation probability 1.0 every trigger edge that reaches the
\* mutation engine changes mutate.pitchStep to a different value; with
\* mutation probability 0.0 no trigger edge ever changes mutate.pitchStep.
\* ---------------------------------------------------------------------
C13_ProbabilityDecides ==
    [][LET EngineRan == mutate'.lastMutateTime = now' /\ mutate.lastMutateTime # now'
    IN obs'.op = "loop1" =>
          /\ (mutate.mutationProbability = 2 * AdcMax /\ EngineRan)
                 => mutate'.pitchStep # mutate.pitchStep
          /\ mutate.mutationProbability = 0
                 => mutate'.pitchStep = mutate.pitchStep
      ]_vars

\* ---------------------------------------------------------------------
\* C15 as claimed: in every reachable state mutate.pitchStep lies in
\* [0, scaleSize*4) for the currently selected scale, also after the scale
\* was changed to one with fewer notes.
\* ---------------------------------------------------------------------
C15_PitchStepInScale ==
    LET PitchSteps == 0 .. (scaleSizes[mutate.currentScale + 1] * 4 - 1)
    IN
    mutate.pitchStep \in PitchSteps

\* ---------------------------------------------------------------------
\* C15 as amended: every run of the mutation engine leaves pitchStep in
\* [0, scaleSize*4) for the scale selected at that run, and nothing else
\* changes pitchStep: selecting another scale with pot 1 leaves it as it
\* is, in range or not, until the next run clamps it.
\* ---------------------------------------------------------------------
C15_PitchStepClampedByEngine ==
    [][LET EngineRan == mutate'.lastMutateTime = now' /\ mutate.lastMutateTime # now'
           PitchSteps == 0 .. (scaleSizes[mutate.currentScale + 1] * 4 - 1)
    IN /\ EngineRan => mutate'.pitchStep \in PitchSteps'
       /\ ~EngineRan => mutate'.pitchStep = mutate.pitchStep
      ]_vars

\* two octave jumps up in the chromatic scale
C15_Witness ==
    /\ obs.op = "loop1" /\ mutate.lastMutateTime = now
    /\ mutate.currentScale = SCALE_COUNT - 1
    /\ mutate.pitchStep = 2 * scaleSizes[SCALE_COUNT]

\* The three lockable parameters: the tier whose knob pot 1 is, the lock
\* flag, the stored pot position, the value, and the value pot 1 stands for.
LockParams == {"probability", "scale", "cutoff"}

TierOf(p) ==
    CASE p = "probability" -> MUTATE_AMOUNT
      [] p = "scale" -> MUTATE_RHYTHM
      [] p = "cutoff" -> MUTATE_CUTOFF

C17_NoJumpOnEntry ==
    [][LET ParamValue(p) ==
               CASE p = "probability" -> mutate.mutationProbability
                 [] p = "scale" -> mutate.currentScale
                 [] p = "cutoff" -> siren.filterCutoff
           PotStep == obs'.op = "readPotentiometers"
           TierParam == CHOOSE p \in LockParams : TierOf(p) = mutate.mode
    IN (PotStep /\ obs.entered = "yes"
        /\ ~(Distance(obs'.pitchRaw, obs.pitchRaw) > UNLOCK_THRESHOLD))
           => ParamValue(TierParam)' = ParamValue(TierParam)]_vars

\* ---------------------------------------------------------------------
\* C17 as amended: a MUTATE press that steps the tier sets the lock flag
\* of the tier that is left and changes no other flag, no parameter and
\* no snapshot; the tier that is entered is locked only if its flag is
\* still set from an earlier visit, and a pot reading in a tier whose
\* parameter is not locked sets the parameter from the knob at once.
\* ---------------------------------------------------------------------
C17_LeavingLocks ==
    [][LET Locked(p) ==
               CASE p = "probability" -> mutate.probabilityLocked
                 [] p = "scale" -> mutate.scaleLocked
                 [] p = "cutoff" -> mutate.cutoffLocked
           Snapshot(p) ==
               CASE p = "probability" -> mutate.lockedProbabilityRaw
                 [] p = "scale" -> mutate.lockedScaleRaw
                 [] p = "cutoff" -> mutate.lockedCutoffRaw
           ParamValue(p) ==
               CASE p = "probability" -> mutate.mutationProbability
                 [] p = "scale" -> mutate.currentScale
                 [] p = "cutoff" -> siren.filterCutoff
           PotValue(p, pitchRaw) ==
               CASE p = "probability" -> PotProbability(pitchRaw)
                 [] p = "scale" -> PotScale(pitchRaw)
                 [] p = "cutoff" -> PotCutoff(pitchRaw)
           PotStep == obs'.op = "readPotentiometers"
           TierParam == CHOOSE p \in LockParams : TierOf(p) = mutate.mode
           TierStep == obs'.op = "loop1" /\ mutate'.mode # mutate.mode
    IN /\ TierStep =>
             \A p \in LockParams :
                 /\ Locked(p)' = (Locked(p) \/ TierOf(p) = mutate.mode)
                 /\ ParamValue(p)' = ParamValue(p)
                 /\ Snapshot(p)' = Snapshot(p)
       /\ (PotStep /\ mutate.mode # MUTATE_OFF /\ ~Locked(TierParam))
             => /\ ParamValue(TierParam)' = PotValue(TierParam, obs'.pitchRaw)
                /\ Snapshot(TierParam)' = obs'.pitchRaw
      ]_vars

\* the probability tier was entered without a lock and the first pot
\* reading after it, with the knob where it was, has moved the probability
C17_Witness ==
    /\ obs.op = "readPotentiometers" /\ obs.entered = "read"
    /\ mutate.mode = MUTATE_AMOUNT /\ ~mutate.probabilityLocked
    /\ mutate.lockedProbabilityRaw = obs.pitchRaw
    /\ mutate.mutationProbability = PotProbability(obs.pitchRaw)
    /\ mutate.mutationProbability # MutateInit.mutationProbability

\* ---------------------------------------------------------------------
\* Mode exit and the mode's state machine
\* ---------------------------------------------------------------------
\* C18: exiting a special-function mode puts its state machine back to the
\* boot values: after leaving record mode recording, playing, hasRecording,
\* the loop flag, the cursor and the length are the boot defaults, and
\* after leaving sequencer mode running, currentStep, noteActive and the
\* step-enabled flags are.
C18_ExitResetsStateMachine ==
    [][LET RecorderExit == obs'.op = "readButtons" /\ recorder.active /\ ~recorder'.active
           SequencerExit == obs'.op = "readButtons" /\ sequencer.active /\ ~sequencer'.active
    IN /\ RecorderExit => recorder' = RecorderInit
       /\ SequencerExit =>
            /\ sequencer'.running = SequencerInit.running
            /\ sequencer'.currentStep = SequencerInit.currentStep
            /\ sequencer'.noteActive = SequencerInit.noteActive
            /\ sequencer'.stepEnabled = SequencerInit.stepEnabled]_vars

\* ---------------------------------------------------------------------
\* Which task writes which field
\* ---------------------------------------------------------------------
\* C19: every shared field has one writing task: a step of the control-rate
\* task leaves the state owned by the audio-rate task (record cursor,
\* sequencer current step, trigger state) as it is, and a step of the
\* audio-rate task leaves every parameter and mode field as it is.
C19_SingleWriter ==
    [][LET ControlStep == obs'.op \in {"readButtons", "readKeyboard", "readPotentiometers"}
           AudioStep == obs'.op = "loop1"
           AudioOwned ==
               <<recorder.recordPosition, sequencer.currentStep, siren.triggered,
                 siren.gateActive, siren.gateStartTime>>
           ParameterAndMode ==
               <<ActiveFlags, mutate.mode, mutate.fullyDisabled,
                 mutate.mutationProbability, mutate.currentScale,
                 mutate.probabilityLocked, mutate.scaleLocked, mutate.cutoffLocked,
                 loopState.pattern, loopState.patternTempo, sidechain.enabled,
                 lfo2.enabled, drone.playMode, recorder.loopEnabled,
                 sequencer.stepEnabled, sequencer.stepInterval, siren.gateMode,
                 siren.lfoDepth, siren.filterCutoff>>
    IN /\ ControlStep => AudioOwned' = AudioOwned
       /\ AudioStep => ParameterAndMode' = ParameterAndMode]_vars

\* ---------------------------------------------------------------------
\* generateSample(): the echo line.  filteredSample is the sample that the
\* oscillator and filter stage hands to it.
\* ---------------------------------------------------------------------
Cell(buffer, i) == IF i \in DOMAIN buffer THEN buffer[i] ELSE 0

Store(buffer, i, v) ==
    IF v = 0 THEN [j \in DOMAIN buffer \ {i} |-> buffer[j]]
    ELSE [j \in DOMAIN buffer \cup {i} |-> IF j = i THEN v ELSE buffer[j]]

Abs(x) == IF x < 0 THEN -x ELSE x

\* the conversion of a float to int32_t: towards zero
TruncDiv(a, b) == IF a >= 0 THEN a \div b ELSE -((-a) \div b)

\* variant: the sum is stored as it is
Clamp16Wide(v) == v

Clamp16(v) == IF v > 32767 THEN 32767 ELSE IF v < -32768 THEN -32768 ELSE v

EchoReadPos(s) ==
    (s.echoWritePos + MAX_DELAY_SAMPLES - s.siren.echoTime) % MAX_DELAY_SAMPLES

\* delayedSample, with the reverse effect off
DelayedSample(s) ==
    IF s.siren.delayIndex > 0 THEN Cell(s.echoBuffer, EchoReadPos(s)) ELSE 0

\* (int32_t)(dry + delayedSample * feedback), the feedback fraction reduced
\* to lowest terms first so that the products stay within 32 bits
WithFeedback(dry, delayedSample, feedback) ==
    LET g   == Gcd(feedback, FeedbackOne)
        num == feedback \div g
        den == FeedbackOne \div g
    IN  TruncDiv(dry * den + delayedSample * num, den)

\* variant: no noise gate in front of the echo line
FeedbackSampleUngated(s, filteredSample, delayedSample) ==
    WithFeedback(filteredSample, delayedSample, s.siren.echoFeedback)

\* feedbackSample: the float sum, converted to int32_t
FeedbackSample(s, filteredSample, delayedSample) ==
    IF Abs(filteredSample) < NoiseGateThreshold
    THEN WithFeedback(0, delayedSample, s.siren.echoFeedback)
    ELSE WithFeedback(filteredSample, delayedSample, s.siren.echoFeedback)

\* One pass through the echo stage.  The control task clears echoBuffer
\* and sets echoWritePos = 0 (readButtons 3916-3919, 4251-4254) without
\* any synchronisation with the audio task; resetAt says where that lands
\* in this pass:
\*   0  not in this pass;
\*   1  after the read of 2728-2729 and before the store of 2785 / 2793;
\*   2  after the store and before echoWritePos is read in 2787 / 2794;
\*   3  between the read and the write of echoWritePos in 2787 / 2794;
\*   4  the buffer is cleared before the pass, echoWritePos = 0 comes after.
EchoStage(s, filteredSample, resetAt) ==
    LET atRead == IF resetAt = 4 THEN [s EXCEPT !.echoBuffer = EchoBufferInit] ELSE s
        value ==
            IF s.siren.delayIndex > 0
            THEN Clamp16(FeedbackSample(s, filteredSample, DelayedSample(atRead)))
            ELSE 0
        atStore == IF resetAt \in {1, 4} THEN EchoBufferInit ELSE s.echoBuffer
        index == IF resetAt = 1 THEN 0 ELSE s.echoWritePos
    IN  [s EXCEPT
            !.echoBuffer = IF resetAt \in {2, 3} THEN EchoBufferInit
                           ELSE Store(atStore, index, value),
            !.echoWritePos = IF resetAt \in {1, 2} THEN 1 % MAX_DELAY_SAMPLES
                             ELSE IF resetAt = 4 THEN 0
                             ELSE (@ + 1) % MAX_DELAY_SAMPLES]

\* one sample through the echo line; the reverse effect is off
GenerateSampleEcho(filteredSample, resetAt) ==
    /\ ~(reverser.active /\ reverser.reversing)
    /\ Commit(EchoStage(Globals, filteredSample, resetAt))
    /\ obs' = [obs EXCEPT
                  !.op = "generateSample", !.pressed = FALSE,
                  !.echoTick = @ + 1,
                  !.sent = IF siren.echoTime > 0
                              /\ (obs.echoTick + 1) % siren.echoTime = 0
                           THEN Append(@, filteredSample) ELSE @,
                  !.delayed = IF resetAt = 4 THEN 0 ELSE DelayedSample(Globals),
                  !.readPos = EchoReadPos(Globals),
                  !.cursor = echoWritePos,
                  !.resetAt = resetAt,
                  !.resets = IF resetAt = 0 THEN @ ELSE @ + 1]
    /\ UNCHANGED now

\* ---------------------------------------------------------------------
\* readButtons(): the panel buttons, in source order.
\* ---------------------------------------------------------------------
\* the MODE button steps the sub-mode of what is on the panel: the sequencer
\* sound, the drone chord, or the sub-mode of the selected instrument
ModeButtonUnwrapped(s) ==
    IF s.sequencer.active THEN [s EXCEPT !.sequencer.soundMode = @ + 1]
    ELSE IF s.drone.active THEN [s EXCEPT !.drone.chordMode = @ + 1]
    ELSE IF s.siren.instrumentType = 0 THEN [s EXCEPT !.siren.mode = @ + 1]
    ELSE IF s.siren.instrumentType = 1 THEN [s EXCEPT !.siren.rayGunMode = @ + 1]
    ELSE IF s.siren.instrumentType = 2 THEN [s EXCEPT !.siren.leadSynthMode = @ + 1]
    ELSE [s EXCEPT !.siren.discoMode = @ + 1]

ModeButton(s) ==
    IF s.sequencer.active
    THEN [s EXCEPT !.sequencer.soundMode = (@ + 1) % SEQ_SOUND_COUNT]
    ELSE IF s.drone.active
    THEN [s EXCEPT !.drone.chordMode = (@ + 1) % DRONE_CHORD_COUNT]
    ELSE IF s.siren.instrumentType = 0         \* INST_DUB_SIREN
    THEN [s EXCEPT !.siren.mode = (@ + 1) % MODE_COUNT]
    ELSE IF s.siren.instrumentType = 1         \* INST_RAY_GUN
    THEN [s EXCEPT !.siren.rayGunMode = (@ + 1) % RAYGUN_MODE_COUNT]
    ELSE IF s.siren.instrumentType = 2         \* INST_LEAD_SYNTH
    THEN [s EXCEPT !.siren.leadSynthMode = (@ + 1) % LEAD_MODE_COUNT]
    ELSE IF s.siren.instrumentType = 3         \* INST_DISCO
    THEN [s EXCEPT !.siren.discoMode = (@ + 1) % DISCO_MODE_COUNT]
    ELSE s

\* a call of readButtons, dt ms after the last step, in which readButton
\* reports a press for the buttons of the set pressed
ReadButtonsPanel(dt, pressed) ==
    LET s1 == ReadButtonsFn(Globals, HIGH, now + dt)
        \* MENU: the next instrument; the echo line is reset
        s2 == IF "menu" \in pressed
              THEN [s1 EXCEPT !.siren.instrumentType = (@ + 1) % INST_COUNT,
                              !.echoBuffer = EchoBufferInit,
                              !.echoWritePos = 0]
              ELSE s1
        \* DELAY: the next delay time (delayTimes[], in samples)
        s3 == IF "delay" \in pressed
              THEN [s2 EXCEPT !.siren.delayIndex = (@ + 1) % DelayTimeCount,
                              !.siren.echoTime =
                                  <<0, 1103, 2205, 3859, 5512, 8269>>
                                      [((s2.siren.delayIndex + 1) % DelayTimeCount) + 1]]
              ELSE s2
        s4 == IF "mode" \in pressed THEN ModeButton(s3) ELSE s3
        \* FUNCTION: the gate length (sequencer) or the gate mode
        s5 == IF "function" \notin pressed THEN s4
              ELSE IF s4.sequencer.active
              THEN [s4 EXCEPT !.sequencer.gateLength =
                                  IF @ + 20 > 100 THEN 20 ELSE @ + 20]
              ELSE [s4 EXCEPT !.siren.gateMode = (@ + 1) % GATE_MODE_COUNT]
    IN  /\ now' = now + dt
        /\ Commit(s5)
        /\ obs' = [obs EXCEPT !.op = "readButtons", !.pressed = FALSE,
                              !.resetAt = 0, !.presses = @ + 1,
                              !.resets = IF "menu" \in pressed THEN @ + 1 ELSE @]

\* ---------------------------------------------------------------------
\* The echo line in use.  The control task has read the pots once, with
\* pot 4 at either end; the audio task has put EchoStart silent samples
\* through the line with the delay off.  The DELAY button is then pressed
\* and MaxEchoPasses * echoTime samples follow; the ticks 0, echoTime,
\* 2 * echoTime, ... carry a sample of DryValues, the others silence.
\* ---------------------------------------------------------------------
EchoStart == MAX_DELAY_SAMPLES - 1500

EchoInit ==
    /\ now = SetupDelay
    /\ obs = ObsInit
    /\ \E feedbackRaw \in {AdcMax, 0} :
          StartIn([ReadPotentiometersFn(
                       [BootGlobals EXCEPT !.feedbackRaw = feedbackRaw],
                       PotSpeedValue, PotSpeedValue, PotModValue)
                   EXCEPT !.echoWritePos = EchoStart])

EchoDelayPress ==
    /\ obs.echoTick = -1
    /\ siren.delayIndex < MaxDelayPresses
    /\ ReadButtonsPanel(0, {"delay"})

EchoRun ==
    /\ siren.delayIndex > 0
    /\ obs.echoTick + 1 <= MaxEchoPasses * siren.echoTime
    /\ \E filteredSample \in {0, 49, 50, -50, 32767} :
          /\ filteredSample # 0 => (obs.echoTick + 1) % siren.echoTime = 0
          /\ GenerateSampleEcho(filteredSample, 0)

EchoNext == EchoDelayPress \/ EchoRun

SpecEcho == EchoInit /\ [][EchoNext]_vars

\* C20: with the delay on (offset = echoTime samples) and feedback 0, the
\* delayed sample read from the echo line at tick n + offset is the dry
\* input sample of tick n exactly, whatever its value, with no residual of
\* an earlier sample.
C20_ExactDelay ==
    LET DryAt(u) ==
            IF u % siren.echoTime = 0 THEN obs.sent[(u \div siren.echoTime) + 1] ELSE 0
        EchoedTick ==
            /\ obs.op = "generateSample"
            /\ obs.echoTick >= siren.echoTime
            /\ siren.echoFeedback = 0
    IN
    EchoedTick => obs.delayed = DryAt(obs.echoTick - siren.echoTime)

\* C20, amended: with the delay on and feedback 0, the delayed sample read
\* at tick n + offset is the dry input sample of tick n if its magnitude is
\* 50 or more and 0 if it is less (the noise gate in front of the line),
\* with no residual of an earlier sample.
C20_GatedDelay ==
    LET DryAt(u) ==
            IF u % siren.echoTime = 0 THEN obs.sent[(u \div siren.echoTime) + 1] ELSE 0
        EchoedTick ==
            /\ obs.op = "generateSample"
            /\ obs.echoTick >= siren.echoTime
            /\ siren.echoFeedback = 0
        NoiseGate(x) == IF Abs(x) < NoiseGateThreshold THEN 0 ELSE x
    IN
    EchoedTick => obs.delayed = NoiseGate(DryAt(obs.echoTick - siren.echoTime))

\* the second pass returns 50 exactly, the first having carried 32767,
\* after the write cursor has wrapped
C20_Witness ==
    LET EchoedTick ==
            /\ obs.op = "generateSample"
            /\ obs.echoTick >= siren.echoTime
            /\ siren.echoFeedback = 0
    IN
    /\ EchoedTick
    /\ obs.echoTick = 2 * siren.echoTime
    /\ obs.sent[1] = 32767 /\ obs.sent[2] = 50
    /\ obs.delayed = 50
    /\ echoWritePos < EchoStart

\* ---------------------------------------------------------------------
\* The echo line with the control task resetting it.  After the DELAY
\* presses of SpecEcho, MaxRingTicks samples go through the line; the ticks
\* 0, echoTime, 2 * echoTime, ... carry a full-scale sample or silence.  At
\* ticks that are multiples of ResetGrid the MENU button may be seen
\* between two samples or its reset may land inside the pass.
\* ---------------------------------------------------------------------
RingReset ==
    /\ siren.delayIndex > 0
    /\ obs.resets < MaxResets
    /\ (obs.echoTick + 1) % ResetGrid = 0
    /\ ReadButtonsPanel(0, {"menu"})

RingRun ==
    /\ siren.delayIndex > 0
    /\ obs.echoTick + 1 <= MaxRingTicks
    /\ \E filteredSample \in {0, 32767, -32768}, resetAt \in 0 .. 4 :
          /\ filteredSample # 0 => (obs.echoTick + 1) % siren.echoTime = 0
          /\ resetAt # 0 => /\ obs.resets < MaxResets
                            /\ (obs.echoTick + 1) % ResetGrid = 0
          /\ GenerateSampleEcho(filteredSample, resetAt)

RingNext == EchoDelayPress \/ RingReset \/ RingRun

SpecRing == EchoInit /\ [][RingNext]_vars

\* C21: the echo write cursor is within [0, MAX_DELAY_SAMPLES); on every
\* audio tick the read index is (write cursor - echoTime) mod
\* MAX_DELAY_SAMPLES and within the buffer; every value in the buffer is
\* within [-32768, 32767]; whatever the control task's resets of cursor and
\* buffer do in between or inside the tick.
C21_EchoLineInBounds ==
    /\ echoWritePos \in 0 .. MAX_DELAY_SAMPLES - 1
    /\ \A i \in DOMAIN echoBuffer :
          /\ i \in 0 .. MAX_DELAY_SAMPLES - 1
          /\ echoBuffer[i] \in -32768 .. 32767
    /\ obs.op = "generateSample" =>
          /\ obs.readPos \in 0 .. MAX_DELAY_SAMPLES - 1
          /\ \E k \in -1 .. 1 :
                obs.readPos = obs.cursor - siren.echoTime + k * MAX_DELAY_SAMPLES

\* a reset has landed inside an earlier pass; this pass adds a full-scale
\* sample to the echo of one, and the sum is stored as 32767
C21_Witness ==
    /\ obs.op = "generateSample"
    /\ obs.resets = 1 /\ obs.resetAt = 0
    /\ Len(obs.sent) >= 2
    /\ obs.sent[Len(obs.sent)] = 32767
    /\ obs.delayed > 30000
    /\ siren.echoFeedback = PotFeedback(0)
    /\ Cell(echoBuffer, obs.cursor) = 32767

\* C22: the echo feedback lies in [0, 0.95], except that it is exactly 1.0
\* while, and only while, infinite hold is on (holdIsOn, the flag that
\* readPotentiometers, the display and the hold exit use).
C22_FeedbackLockedByHold ==
    /\ hold.isOn => siren.echoFeedback = FeedbackOne
    /\ ~hold.isOn => siren.echoFeedback \in 0 .. PotFeedback(0)

\* ---------------------------------------------------------------------
\* Sidechain mode.  The control task has entered it (Function held,
\* Function + Key 8, Function released).  The audio task runs once per
\* millisecond; a key (Key 8: sidechain on / off, Key 1: a note) is down
\* only in the iterations at the multiples of SideGrid and 1 ms later; the
\* pots are read at the multiples of SideGrid.
\* ---------------------------------------------------------------------
SideInit ==
    LET s1 == ReadButtonsFn(BootGlobals, LOW, SetupDelay)
        s2 == ReadButtonsFn(s1, LOW, SetupDelay + ButtonDebounce + 1)
        s3 == ReadKeyboardFn(s2, {8}, SetupDelay + ButtonDebounce + 1)
        s4 == ReadButtonsFn(s3, HIGH, SetupDelay + ButtonDebounce + 2)
    IN  /\ now = SetupDelay + PollGap
        /\ obs = ObsInit
        /\ StartIn(ReadButtonsFn(s4, HIGH, SetupDelay + 2 * ButtonDebounce + 3))

SideTick ==
    /\ now + 1 <= SetupDelay + PollGap + MaxSideTime
    /\ \E keys \in {{}, {8}, {1}} :
          /\ keys # {} => (now + 1) % SideGrid <= 1
          /\ Loop1(1, HIGH, FALSE, keys, 0)

SidePots ==
    /\ now % SideGrid = 0
    /\ \E pots \in {<<0, AdcMax, 0>>, <<2730, 0, AdcMax>>, <<AdcMax, 2048, 2048>>} :
          ReadPotentiometers(pots[1], pots[2], pots[3])

SideNext == SideTick \/ SidePots

SpecSide == SideInit /\ [][SideNext]_vars

\* C23: whenever the sidechain is active and enabled, the envelope that an
\* audio iteration computes (the iteration finds the sidechain active and
\* enabled) lies within [1 - depth, 1], for the depth, attack and release
\* settings of that iteration and every point of the attack / release cycle.
C23_EnvelopeInRange ==
    [][(obs'.op = "loop1" /\ sidechain.active /\ sidechain.enabled) =>
          LET depth == Fraction(sidechain'.depth, DepthOne)
          IN  /\ sidechain'.envelope.num <= sidechain'.envelope.den
              /\ (depth.den - depth.num) * sidechain'.envelope.den
                     <= depth.den * sidechain'.envelope.num]_vars

\* with depth 1.0 the envelope is at its floor 1 - depth = 0 at the end
\* of a 50 ms attack
C23_Witness ==
    /\ obs.op = "loop1" /\ sidechain.active /\ sidechain.enabled
    /\ sidechain.triggered
    /\ sidechain.depth = DepthOne
    /\ sidechain.attackTime = 50 * AdcMax
    /\ now - sidechain.lastTriggerTime = 50
    /\ sidechain.envelope = [num |-> 0, den |-> 1]

\* loop1 is the loop of the second core: it never stops iterating, so the
\* step of SideTick, which is the only one that moves the clock, is taken
\* again and again until the horizon.
SpecSideLive ==
    /\ SpecSide
    /\ WF_now(now + 1 <= SetupDelay + PollGap + MaxSideTime /\ now' = now + 1)

\* C24: while the sidechain is active and enabled and no external trigger
\* edge arrives, an iteration that finds the envelope finished and one
\* attack + release time gone since the last trigger triggers again by
\* itself, and without an edge no trigger comes earlier; so for as long as
\* the sidechain stays enabled (and the horizon leaves room for the longest
\* cycle, 50 + 500 ms) another trigger always follows.
C24_AutoRetrigger ==
    /\ [][LET edge == obs'.keys # {} /\ ~l1.lastBtnOrKeyState
              due == (now' - sidechain.lastTriggerTime) * AdcMax
                        >= sidechain.attackTime + sidechain.releaseTime
          IN  (obs'.op = "loop1" /\ sidechain.active /\ sidechain.enabled
                  /\ ~edge) =>
                 IF ~sidechain.triggered /\ due
                 THEN /\ sidechain'.triggered
                      /\ sidechain'.lastTriggerTime = now'
                      /\ sidechain'.envelope = [num |-> 1, den |-> 1]
                 ELSE sidechain'.lastTriggerTime = sidechain.lastTriggerTime
         ]_vars
    /\ (/\ sidechain.active /\ sidechain.enabled
        /\ now + 50 + 500 + 2 <= SetupDelay + PollGap + MaxSideTime)
          ~> (\/ obs.op = "loop1" /\ sidechain.lastTriggerTime = now
              \/ ~(sidechain.active /\ sidechain.enabled))

\* the third trigger in a row that no key caused: 3 + 300 ms and one
\* iteration after the second
C24_Witness ==
    /\ obs.op = "loop1" /\ sidechain.active /\ sidechain.enabled
    /\ obs.keys = {} /\ ~l1.lastBtnOrKeyState
    /\ sidechain.attackTime = 3 * AdcMax /\ sidechain.releaseTime = 300 * AdcMax
    /\ sidechain.lastTriggerTime = now
    /\ now = SideGrid * 5 + 1 + 2 * 304

\* =====================================================================
\* The instrument, sub-mode and preset indices.  The control task has
\* entered no mode, the sequencer, the loop mode or the drone mode
\* (Function held, Function + Key 1 / 2 / 7, Function released), or the
\* LFO 2 mode with LFO 2 switched on (Function + Key 6).  The audio
\* task then runs every MutGap ms for MaxIdxTicks iterations; Key 2, the
\* trigger button and the MUTATE button are tapped together, down for two
\* iterations and up for two.  Between any two iterations the control task
\* may see a panel button pressed (MENU, MODE, or DELAY and FUNCTION at
\* once), MaxPanelPresses times in all.
\* =====================================================================
IdxInit ==
    /\ now = SetupDelay + PollGap
    /\ \E key \in {0, 1, 2, 6, 7} :
          LET s1 == ReadButtonsFn(BootGlobals, LOW, SetupDelay)
              s2 == ReadButtonsFn(s1, LOW, SetupDelay + ButtonDebounce + 1)
              s3 == ReadKeyboardFn(s2, {key}, SetupDelay + ButtonDebounce + 1)
              s4 == ReadButtonsFn(s3, HIGH, SetupDelay + ButtonDebounce + 2)
              s5 == ReadButtonsFn(s4, HIGH, SetupDelay + 2 * ButtonDebounce + 3)
          IN  /\ StartIn(IF key = 0 THEN BootGlobals
                         \* Key 6 is scanned once more in LFO 2 mode
                         ELSE IF key = 6
                         THEN ReadKeyboardFn(s5, {6}, SetupDelay + 2 * ButtonDebounce + 3)
                         ELSE s5)
              \* the key of the chord is still down
              /\ obs = [ObsInit EXCEPT !.keys = {key} \ {0}, !.scanned = {key} \ {0}]

IdxPress ==
    /\ obs.presses < MaxPanelPresses
    /\ \E pressed \in {{"menu"}, {"mode"}, {"delay", "function"}} :
          ReadButtonsPanel(0, pressed)

IdxTick ==
    /\ now + MutGap <= SetupDelay + PollGap + MaxIdxTicks * MutGap
    /\ LET tick == (now - SetupDelay - PollGap) \div MutGap
       IN  IF tick % 4 >= 2
           THEN Loop1With(MutGap, HIGH, FALSE, HIGH, {}, RandomInit, 0)
           ELSE Loop1With(MutGap, LOW, FALSE, LOW, {2}, RandomInit, 0)

IdxNext == IdxPress \/ IdxTick

SpecIdx == IdxInit /\ [][IdxNext]_vars

\* C25: in every reachable state each instrument, sub-mode and preset
\* index (instrument type, siren mode, ray-gun mode, lead-synth mode, disco
\* mode, delay index, gate mode, mutation tier, loop pattern, drone chord,
\* drone play mode, sequencer sound) is below the count of its enum.
C25_IndicesInRange ==
    /\ siren.instrumentType \in 0 .. INST_COUNT - 1
    /\ siren.mode \in 0 .. MODE_COUNT - 1
    /\ siren.rayGunMode \in 0 .. RAYGUN_MODE_COUNT - 1
    /\ siren.leadSynthMode \in 0 .. LEAD_MODE_COUNT - 1
    /\ siren.discoMode \in 0 .. DISCO_MODE_COUNT - 1
    /\ siren.delayIndex \in 0 .. DelayTimeCount - 1
    /\ siren.gateMode \in 0 .. GATE_MODE_COUNT - 1
    /\ mutate.mode \in 0 .. MUTATE_MODE_COUNT - 1
    /\ loopState.pattern \in 0 .. LOOP_COUNT - 1
    /\ drone.chordMode \in 0 .. DRONE_CHORD_COUNT - 1
    /\ drone.playMode \in 0 .. DronePlayModes - 1
    /\ sequencer.soundMode \in 0 .. SEQ_SOUND_COUNT - 1

\* the MENU button has gone once round the instruments, the MODE button
\* once round the sub-modes of the dub siren, the FUNCTION button has moved
C25_Witness ==
    /\ obs.resets = INST_COUNT - 1
    /\ obs.presses = INST_COUNT - 1 + DISCO_MODE_COUNT
    /\ siren.discoMode = 0
    /\ loopState.active
    /\ loopState.pattern = LOOP_OFF
    /\ now = SetupDelay + PollGap + (4 * (LOOP_COUNT - 2) + 1) * MutGap

\* =====================================================================
\* The pure functions of the audio path, applied to inputs of their own.
\* obs.fn holds the input an action applies its function to and the
\* result.  A 32-bit phase is kept as its two 16-bit halves.
\* =====================================================================
\* the conversion (int16_t)v of an int
ToInt16(v) == ((v + 32768) % 65536) - 32768

\* (int16_t)(ph >> 16) - 16384, returned as int16_t
generateSawtooth(ph) == ToInt16(ToInt16(ph.hi) - 16384)

\* (ph & 0x80000000) ? 16384 : -16384
generateSquare(ph) == IF ph.hi >= 32768 THEN 16384 ELSE -16384

generateTriangle(ph) ==
    LET quarter == ph.hi \div 16384                        \* ph >> 30
        v == ToInt16((2 * ph.hi + ph.lo \div 32768) % 65536) \* (int16_t)((ph >> 15) & 0xFFFF)
    IN  ToInt16(IF quarter \in {0, 3} THEN v - 16384 ELSE 16384 - v)

FnInit ==
    /\ now = SetupDelay
    /\ StartIn(BootGlobals)
    /\ \/ \E hi \in {0, 1, 16383, 16384, 16385, 32767, 32768, 32769, 49151,
                      49152, 49153, 65535},
             lo \in {0, 32767, 32768, 65535} :
             obs = [ObsInit EXCEPT !.fn.kind = "phase",
                                   !.fn.ph = [hi |-> hi, lo |-> lo]]
       \* the lowpass: cutoff 1, 200 (pot minimum), 1200 (boot), 4000 (pot
       \* maximum), 4095; a constant input; a starting state
       \/ \E filterAmount \in {1, 200, 1200, 4000, 4095},
             sample \in {-32768, -1, 0, 1000, 32767},
             filterState \in {-32768, -5, 0, 1, 1000, 32767} :
             obs = [ObsInit EXCEPT !.fn.kind = "filter",
                                   !.fn.filterAmount = filterAmount,
                                   !.fn.sample = sample,
                                   !.fn.filterState = filterState]
       \* the pitch quantizer: a scale, a step, the callers' base frequencies
       \/ \E currentScale \in 0 .. SCALE_COUNT - 1, scaleStep \in 0 .. MaxScaleStep,
             baseFreq \in {110, 220} :
             obs = [ObsInit EXCEPT !.fn.kind = "pitch",
                                   !.fn.currentScale = currentScale,
                                   !.fn.baseFreq = baseFreq,
                                   !.fn.scaleStep = scaleStep]
       \* the ratchet pattern: every period pot 2 can select
       \/ \E patternTempo \in 200 .. 1000 :
             obs = [ObsInit EXCEPT !.fn.kind = "loop",
                                   !.fn.patternTempo = patternTempo]

\* one of the three generators is applied to the phase
WaveApply ==
    /\ obs.fn.kind = "phase"
    /\ \E wave \in {"generateSawtooth", "generateSquare", "generateTriangle"} :
          obs' = [obs EXCEPT
                    !.op = wave,
                    !.fn.out =
                        CASE wave = "generateSawtooth" -> generateSawtooth(obs.fn.ph)
                          [] wave = "generateSquare" -> generateSquare(obs.fn.ph)
                          [] wave = "generateTriangle" -> generateTriangle(obs.fn.ph)]
    /\ Commit(Globals)
    /\ UNCHANGED now

\* variant: the shift rounds toward zero
LowpassTowardZero(filterState, sample, filterAmount) ==
    filterState + TruncDiv((sample - filterState) * filterAmount, 4096)

\* filterState + (((sample - filterState) * filterAmount) >> 12): the shift
\* of a negative int32_t is arithmetic, it rounds down
Lowpass(filterState, sample, filterAmount) ==
    filterState + (((sample - filterState) * filterAmount) \div 4096)

\* one sample through the lowpass with the input held
FilterStep ==
    /\ obs.fn.kind = "filter"
    /\ obs' = [obs EXCEPT
                 !.op = "lowpass",
                 !.fn.filterState = Lowpass(@, obs.fn.sample, obs.fn.filterAmount)]
    /\ Commit(Globals)
    /\ UNCHANGED now

\* the frequency ratios of the scales, in thousandths
scales ==
    <<<<1000, 1189, 1335, 1498, 1782, 2000>>,
      <<1000, 1122, 1260, 1335, 1498, 1682, 1888, 2000>>,
      <<1000, 1189, 1260, 1335, 1498, 1782, 2000>>,
      <<1000, 1122, 1189, 1335, 1498, 1587, 1782, 2000>>,
      <<1000, 1059, 1122, 1189, 1260, 1335, 1414, 1498, 1587, 1682, 1782, 1888,
        2000>>>>

\* variant: the octave is left out
quantizePitchToScaleOneOctave(currentScale, baseFreq, scaleStep) ==
    110 * scales[currentScale + 1][(scaleStep % scaleSizes[currentScale + 1]) + 1]

\* the frequency in mHz; currentScale is mutate.currentScale.  baseFreq is
\* not used: the root is 110 Hz.
quantizePitchToScale(currentScale, baseFreq, scaleStep) ==
    LET size        == scaleSizes[currentScale + 1]
        octave      == (scaleStep % 256) \div size
        noteInScale == (scaleStep % 256) % size
        rootFreq    == 110
        octaveFreq  == rootFreq * 2 ^ octave
    IN  octaveFreq * scales[currentScale + 1][noteInScale + 1]

QuantizeApply ==
    /\ obs.fn.kind = "pitch"
    /\ obs' = [obs EXCEPT
                 !.op = "quantizePitchToScale",
                 !.fn.out = quantizePitchToScale(obs.fn.currentScale, obs.fn.baseFreq,
                                                 obs.fn.scaleStep)]
    /\ Commit(Globals)
    /\ UNCHANGED now

\* the pattern gate of the next millisecond of one pattern period, with
\* the RATCHET pattern selected: hits counts the times the gate has opened,
\* onMs the milliseconds it has stayed open since
RatchetTick ==
    /\ obs.fn.kind = "loop"
    /\ obs.fn.elapsed < obs.fn.patternTempo
    /\ LET s == [Globals EXCEPT
                   !.loopState = [active |-> TRUE, pattern |-> LOOP_RATCHET,
                                  patternStartTime |-> 0,
                                  patternTempo |-> obs.fn.patternTempo]]
           gate == evaluateLoopPattern(s, obs.fn.elapsed)
       IN  obs' = [obs EXCEPT
                     !.op = "evaluateLoopPattern",
                     !.fn.elapsed = @ + 1,
                     !.fn.gate = gate,
                     !.fn.hits = IF gate /\ ~obs.fn.gate THEN @ + 1 ELSE @,
                     !.fn.onMs = IF ~gate THEN @
                                 ELSE IF obs.fn.gate THEN @ + 1 ELSE 1]
    /\ Commit(Globals)
    /\ UNCHANGED now

FnNext == WaveApply \/ FilterStep \/ QuantizeApply \/ RatchetTick

SpecFn == FnInit /\ [][FnNext]_vars

\* the audio task keeps generating samples
SpecFnLive == SpecFn /\ WF_vars(FilterStep)

\* C26: if the record buffer could not be allocated at boot, record mode
\* never starts a recording or a playback, and no audio iteration loads
\* from or stores to the buffer.
C26_MissingBufferDisables ==
    [][recorder.buffer = "nullptr" =>
          /\ ~recorder'.recording
          /\ ~recorder'.playing
          /\ ~(obs'.op = "loop1" /\ (recorder.playing \/ RecordWrites(Globals)))]_vars

\* C27: for every 32-bit phase the sawtooth, square and triangle generators
\* return a value within [-16384, 16383].
C27_WaveRange ==
    obs.op \in {"generateSawtooth", "generateSquare", "generateTriangle"} =>
        obs.fn.out \in -16384 .. 16383

\* C28 (as stated): for any cutoff in (0, 4095] and any starting state the
\* lowpass driven by a constant input moves monotonically toward the input
\* without overshoot, and its state eventually equals the input.
C28_FilterConverges ==
    /\ [][(obs.fn.kind = "filter" /\ obs'.op = "lowpass") =>
            \/ obs.fn.filterState <= obs'.fn.filterState
               /\ obs'.fn.filterState <= obs.fn.sample
            \/ obs.fn.filterState >= obs'.fn.filterState
               /\ obs'.fn.filterState >= obs.fn.sample]_vars
    /\ (obs.fn.kind = "filter") ~> (obs.fn.filterState = obs.fn.sample)

\* C28 (amended): the state moves monotonically toward the input without
\* overshoot; from above it reaches the input; from below it never reaches
\* it and comes to rest once (input - state) * cutoff < 4096, that is
\* input - state <= 4095 \div cutoff.
C28_FilterSettles ==
    /\ [][(obs.fn.kind = "filter" /\ obs'.op = "lowpass") =>
            \/ obs.fn.filterState <= obs'.fn.filterState
               /\ obs'.fn.filterState < obs.fn.sample
            \/ obs.fn.filterState >= obs'.fn.filterState
               /\ obs'.fn.filterState >= obs.fn.sample]_vars
    /\ (obs.fn.kind = "filter" /\ obs.fn.filterState >= obs.fn.sample)
           ~> (obs.fn.filterState = obs.fn.sample)
    /\ (obs.fn.kind = "filter" /\ obs.fn.filterState < obs.fn.sample)
           ~> (/\ obs.fn.filterAmount > 0
               /\ obs.fn.sample - obs.fn.filterState <= 4095 \div obs.fn.filterAmount)

\* the boot cutoff: from 0 the state has come to rest 3 below the input 1000
C28_Witness ==
    /\ obs.op = "lowpass"
    /\ obs.fn.kind = "filter"
    /\ obs.fn.filterAmount = 1200
    /\ obs.fn.sample = 1000
    /\ obs.fn.filterState = 997

\* C29: for every scale quantizePitchToScale(root, step) is non-decreasing
\* in step within one octave of the scale, and quantizePitchToScale(root,
\* step + scaleSize) is exactly twice quantizePitchToScale(root, step).
C29_QuantizeMonotoneAndOctave ==
    obs.op = "quantizePitchToScale" =>
        LET size == scaleSizes[obs.fn.currentScale + 1]
            next == quantizePitchToScale(obs.fn.currentScale, obs.fn.baseFreq,
                                         obs.fn.scaleStep + 1)
            up   == quantizePitchToScale(obs.fn.currentScale, obs.fn.baseFreq,
                                         obs.fn.scaleStep + size)
        IN  /\ (obs.fn.scaleStep % size) + 1 < size => obs.fn.out <= next
            /\ up = 2 * obs.fn.out

\* chromatic scale, step 23: the eleventh note of the second octave
C29_Witness ==
    /\ obs.op = "quantizePitchToScale"
    /\ obs.fn.currentScale = SCALE_COUNT - 1
    /\ obs.fn.scaleStep = 23
    /\ obs.fn.out = 110 * 2 * 1782

\* C30: with the RATCHET pattern the gate opens exactly 12 times per
\* pattern period and closes after each, and every time it stays open for
\* half a sub-cycle (patternTempo / 24 ms) to within a millisecond, for
\* every pattern period from 200 to 1000 ms.
C30_RatchetTwelveHits ==
    obs.fn.kind = "loop" =>
        /\ obs.fn.hits <= 12
        /\ obs.fn.elapsed = obs.fn.patternTempo => obs.fn.hits = 12 /\ ~obs.fn.gate
        /\ (obs.fn.hits > 0 /\ ~obs.fn.gate) =>
               /\ 24 * obs.fn.onMs > obs.fn.patternTempo - 24
               /\ 24 * obs.fn.onMs < obs.fn.patternTempo + 24

\* the shortest period: twelve hits in 200 ms, the last one 8 ms long
C30_Witness ==
    /\ obs.fn.kind = "loop"
    /\ obs.fn.patternTempo = 200
    /\ obs.fn.elapsed = 200
    /\ obs.fn.hits = 12
    /\ obs.fn.onMs = 8

\* =====================================================================
\* The drone voice
\* =====================================================================
\* C31: the drone envelope only moves by its 0.5 s fades: an audio
\* iteration that finds drone mode active with the envelope at 0, and after
\* which the drone has no reason to sound (play mode OFF, or KEYS with no
\* key held), leaves the envelope at 0.
C31_SilentStaysSilent ==
    [][(/\ obs'.op = "loop1"
        /\ drone.active /\ drone'.active
        /\ drone.envelope = 0
        /\ \/ drone'.playMode = 0
           \/ drone'.playMode = 1 /\ rk'.numKeysHeld = 0)
          => drone'.envelope = 0]_vars

\* =====================================================================
\* The MUTATE button tapped at will: the audio task from boot, one
\* iteration every TapGap ms, with the MUTATE button and the sync input at
\* either level in each (two presses TapGap * 2 apart are a double tap,
\* presses TapGap * 3 or more apart are single taps).
\* =====================================================================
TapTick ==
    /\ now + TapGap <= SetupDelay + MaxTapTicks * TapGap
    /\ \E syncInputHigh \in BOOLEAN, mutateReading \in {HIGH, LOW} :
          Loop1With(TapGap, HIGH, syncInputHigh, mutateReading, {}, RandomInit, 0)

SpecTap == MutInit /\ [][TapTick]_vars

C33_ToggleOncePerPress ==
    [][LET edge(k) == k \in obs'.scanned /\ k \notin obs.scanned
       IN  obs'.op = "readKeyboard" =>
              /\ infiniteSustain => ((hold'.isOn # hold.isOn) <=> edge(5))
              /\ reverser.active
                    => ((reverser'.reversing # reverser.reversing) <=> edge(4))
              /\ lfo2.active => ((lfo2'.enabled # lfo2.enabled) <=> edge(6))]_vars

\* =====================================================================
\* The recorder's flags and cursor under both tasks (SpecRec)
\* =====================================================================
\* C34: recorder.recording and recorder.playing are never both true,
\* whatever the order of the control task's key scans and mode exits and
\* the audio task's iterations.
C34_RecordXorPlay == ~(recorder.recording /\ recorder.playing)

\* the audio task has ended a playback by itself while the Key 3 press that
\* had started it was still held
C34_Witness ==
    /\ obs.op = "loop1" /\ obs.playEnd = "stop"
    /\ ~recorder.playing /\ ~recorder.recording
    /\ recorder.hasRecording /\ recorder.recordLength > 0
    /\ rk.lastKey3State /\ 3 \in obs.scanned

\* C35: during playback the audio task reads the record buffer only at
\* indices below recordLength, whatever the length of the recording (0
\* included) and the loop flag.
C35_ReadsInsideRecording ==
    (obs.op = "loop1" /\ obs.readAt # -1) => obs.readAt < recorder.recordLength

\* C36: entering record mode never starts a recording by itself: a
\* recording starts only in a key scan that finds Key 3 down after the scan
\* before found it up.
C36_EntryStartsNothing ==
    [][(~recorder.recording /\ recorder'.recording)
          => (obs'.op = "readKeyboard" /\ 3 \in obs'.scanned
                 /\ 3 \notin obs.scanned)]_vars

\* ---------------------------------------------------------------------
\* C37: in loop mode the pattern is stepped only by an audio iteration
\* that finds Key 2 down after it was up: the Key 2 of the entry chord,
\* which is down without a release in between, does not step the pattern
\* away from TRIPLET.
\* ---------------------------------------------------------------------
C37_EntryKeepsTriplet ==
    [][(loopState.active /\ loopState'.pattern # loopState.pattern)
          => (obs'.op = "loop1" /\ 2 \in obs'.keys /\ 2 \notin obs.keys)]_vars

\* ---------------------------------------------------------------------
\* C38: from the iteration in which TRIGGER starts the sequencer until the
\* first step transition, and for as long as the gate time of the step
\* (stepInterval * gateLength / 100 ms) has not gone by since the start,
\* the note of an enabled step 1 (index 0) is active.
\* ---------------------------------------------------------------------
C38_FirstStepSounds ==
    (/\ obs.op = "loop1" /\ obs.branch = "sequencer"
     /\ sequencer.running /\ obs.steps = 0
     /\ sequencer.currentStep = 0 /\ sequencer.stepEnabled[0]
     /\ (now - obs.startAt) * 100 < sequencer.stepInterval * sequencer.gateLength)
        => sequencer.noteActive

\* =====================================================================
\* The DELAY button against the audio task.  readButtons writes
\* siren.delayIndex (4262) and then siren.echoTime (4263), two plain stores
\* on the control task's core with no synchronisation; a pass of the audio
\* task's echo stage can fall between them.
\* =====================================================================
\* one sample through the echo line while the DELAY press is under way: the
\* pass reads the new delayIndex (2722) and the echoTime of before (2728)
EchoPressInPass ==
    /\ obs.echoTick = -1
    /\ siren.delayIndex < MaxDelayPresses
    /\ ~(reverser.active /\ reverser.reversing)
    /\ \E filteredSample \in {0, 32767} :
          LET seen  == [Globals EXCEPT
                           !.siren.delayIndex = (@ + 1) % DelayTimeCount]
              after == EchoStage(seen, filteredSample, 0)
          IN  /\ Commit([after EXCEPT
                            !.siren.echoTime =
                                <<0, 1103, 2205, 3859, 5512, 8269>>
                                    [after.siren.delayIndex + 1]])
              /\ obs' = [obs EXCEPT
                            !.op = "generateSample", !.pressed = FALSE,
                            !.echoTick = @ + 1,
                            !.sent = Append(@, filteredSample),
                            !.delayed = DelayedSample(seen),
                            !.readPos = EchoReadPos(seen),
                            !.cursor = echoWritePos,
                            !.resetAt = 0, !.presses = @ + 1]
    /\ UNCHANGED now

RaceNext == EchoDelayPress \/ EchoRun \/ EchoPressInPass

SpecRace == EchoInit /\ [][RaceNext]_vars

\* C39: whenever a pass of the echo stage computes a read index (the delay
\* index it works with is above 0), the delay length it subtracts from the
\* write cursor is delayTimes[delayIndex].
C39_DelayMatchesIndex ==
    (obs.op = "generateSample" /\ siren.delayIndex > 0) =>
        (obs.cursor - obs.readPos) % MAX_DELAY_SAMPLES
            = <<0, 1103, 2205, 3859, 5512, 8269>>[siren.delayIndex + 1]

\* C40: while LFO 2 is enabled, an audio tick advances lfo2.phase by
\* exactly one increment modulo 2^32, whatever the instrument and the mode.
C40_OneIncrementPerTick ==
    [][(obs'.op = "loop1" /\ lfo2.enabled /\ lfo2'.enabled) =>
           lfo2'.phase = AdvanceLfo2(Globals).lfo2.phase]_vars

====
